---------------------------- MODULE Spec2Model ----------------------------
(***************************************************************************)
(* Execution engine of the dags / snapflow pipeline runtime.               *)
(*                                                                         *)
(* The model follows src/dags/core/environment.py: Environment.produce,    *)
(* run_node and run_graph drive one ExecutionManager.run per node, each    *)
(* inside the context manager Environment.execution, which opens a         *)
(* metadata session, commits it when the body returns, rolls it back when  *)
(* the body (or the commit) raises, and always closes it.                  *)
(* Environment.session_scope is the same discipline for the otype          *)
(* operations.  ExecutionManager.run and the graph's dependency order are  *)
(* not part of the sources at hand; they are modelled from the design      *)
(* document (section 4.5).                                                 *)
(***************************************************************************)
EXTENDS Naturals, Sequences, FiniteSets

\* ------------------------------------------------------------- bounds --

\* Number of nodes of the flattened graph.
NumNodes == 3

\* Most Produced outcomes of one node execution (one exhaustion loop); the
\* loop of a repeatable pipe then has to end with Exhausted or a failure.
MaxProduced == 2

\* Number of distinct generated-otype keys.
NumKeys == 2

\* Most converters registered with the conversion engine.
MaxConverters == 4

\* Most rows of a records object held by a replica.
MaxRows == 2

\* Most conversions applied, one after another, to the replicas of a block.
MaxConversions == 2

\* Most operations called, one after the other, on one environment.
MaxCalls == 2

\* Most elements of the list that pipe_chain is given.
MaxChain == 2

\* Most chunks that a generator yields.
MaxChunks == 2

Nodes == 1..NumNodes

Keys == 1..NumKeys

\* ---------------------------------------------------- records objects --

\* StorageFormat(storage, data_format): a node of the converter graph.
StorageFormat(st, f) == [ storage |-> st, format |-> f ]

\* The fields of the records and the values they take, other than null.
Columns == {"a", "b"}

Values == {"1", "2"}

\* Null in a row of a records list is None, in a column of a dataframe NaT
\* or NaN.
None == "None"

NaT == "NaT"

\* No exception.
NoError == "none"

\* What a function comes back with: a value, or the exception it
\* raised.
Returned(v) == [ raised |-> NoError, value |-> v ]

Raised(e) == [ raised |-> e, value |-> None ]

\* The records lists of up to MaxRows rows: sequences of rows, each a
\* mapping from the fields to values.
RecordsLists ==
    UNION { [ 1..n -> [ Columns -> Values \cup {None} ] ] : n \in 0..MaxRows }

\* The dataframes of up to MaxRows rows: a column of values for each field,
\* all of one length.
DataFrames ==
    UNION { [ Columns -> [ 1..n -> Values \cup {NaT} ] ] : n \in 0..MaxRows }

\* The number of rows of the dataframe df.
NumRows(df) == Len(df[CHOOSE c \in Columns : TRUE])

\* dataframe_to_records_list(input_object, otype): one row for each index of
\* the dataframe, each field with the value of its column; NaT becomes None.
dataframe_to_records_list(df) ==
    [ i \in 1..NumRows(df) |->
        [ c \in Columns |-> IF df[c][i] = NaT THEN None ELSE df[c][i] ] ]

\* records_list_to_dataframe(input_object, otype): one column for each field
\* of the otype, with the values of the rows in their order; None becomes
\* the null of the column.
records_list_to_dataframe(rl) ==
    [ c \in Columns |->
        [ i \in 1..Len(rl) |-> IF rl[i][c] = None THEN NaT ELSE rl[i][c] ] ]

RECURSIVE Extended(_)
\* all_ = []; for dl in chunks: all_.extend(dl)
Extended(chunks) ==
    IF chunks = << >> THEN << >> ELSE Head(chunks) \o Extended(Tail(chunks))

\* records_list_generator_to_records_list: the rows of every chunk that the
\* generator yields, in order.
records_list_generator_to_records_list(gen) == Extended(gen)

RECURSIVE Concat(_)
\* The dataframes of frames one below the other, as concat stacks them.
Concat(frames) ==
    IF frames = << >> THEN [ c \in Columns |-> << >> ]
    ELSE [ c \in Columns |-> Head(frames)[c] \o Concat(Tail(frames))[c] ]

\* concat(all_) of pandas: the dataframes of the list one below the other;
\* for a list that holds none it raises ValueError (no objects to
\* concatenate).
pandas_concat(frames) ==
    IF frames = << >> THEN Raised("ValueError") ELSE Returned(Concat(frames))

\* dataframe_generator_to_dataframe: the chunks that the generator yields,
\* appended to a list and concatenated.
dataframe_generator_to_dataframe(gen) == pandas_concat(gen)

records_list_generator_to_dataframe(gen) ==
    records_list_to_dataframe(records_list_generator_to_records_list(gen))

\* dataframe_generator_to_records_list: the rows of the concatenated
\* dataframe, when there is one.
dataframe_generator_to_records_list(gen) ==
    LET df == dataframe_generator_to_dataframe(gen)
    IN  IF df.raised = NoError THEN Returned(dataframe_to_records_list(df.value)) ELSE df

\* The keys of the lookup of _convert: the pairs (input format, output
\* format) that have a conversion function.
LookupKeys ==
    { << "DataFrame", "RecordsList" >>, << "RecordsList", "DataFrame" >>,
      << "RecordsListGenerator", "DataFrame" >>,
      << "RecordsListGenerator", "RecordsList" >>,
      << "DataFrameGenerator", "DataFrame" >>,
      << "DataFrameGenerator", "RecordsList" >> }

\* lookup[(input_sdb.data_format, output_sdb.data_format)](records_object):
\* what the conversion function of the two formats returns or raises.
Lookup(fin, fout, d) ==
    CASE << fin, fout >> = << "DataFrame", "RecordsList" >> ->
             Returned(dataframe_to_records_list(d))
      [] << fin, fout >> = << "RecordsList", "DataFrame" >> ->
             Returned(records_list_to_dataframe(d))
      [] << fin, fout >> = << "RecordsListGenerator", "DataFrame" >> ->
             Returned(records_list_generator_to_dataframe(d))
      [] << fin, fout >> = << "RecordsListGenerator", "RecordsList" >> ->
             Returned(records_list_generator_to_records_list(d))
      [] << fin, fout >> = << "DataFrameGenerator", "DataFrame" >> ->
             dataframe_generator_to_dataframe(d)
      [] << fin, fout >> = << "DataFrameGenerator", "RecordsList" >> ->
             dataframe_generator_to_records_list(d)

\* An optional attribute that holds a mapping or an object: nothing, or the
\* value.
Nothing == << >>

Some(v) == << v >>

\* ------------------------------------------------------------ failures --

\* The failure kinds of section 7 that are raised before the pipe is
\* invoked (interface resolution, conversion of the bound inputs).
BindErrors == {"InterfaceBindingError", "NoConversionPathError"}

\* The failure kinds raised by the invocation itself or by registering its
\* output (realized schema check, storage write).
InvokeErrors == {"SchemaMismatchError", "StorageIOError"}

\* What session.commit() raises when the metadata store refuses the commit.
CommitError == "CommitError"

\* The errors that are no Exception: `except Exception` does not catch
\* them.
BaseExceptions == { "KeyboardInterrupt", "SystemExit", "GeneratorExit" }

\* What may end a call from outside while it runs or commits: an interrupt
\* of the process, a request to exit.
Interrupts == { "KeyboardInterrupt", "SystemExit" }

\* What session.commit() may raise.
CommitErrors == { CommitError } \cup Interrupts

\* -------------------------------------------------------------- graph --

\* upstream relation of the flattened graph: up[n] is the set of direct
\* upstream nodes of n.  Edges between distinct nodes are acyclic (data model
\* invariant (d)); the bounded graphs take an edge only from a higher node
\* id to a lower one, which covers every DAG up to renaming of its nodes.
Graphs == { up \in [Nodes -> SUBSET Nodes] : \A n \in Nodes : \A u \in up[n] : u > n }

\* The nodes whose output is bound to the input slots of n.  An edge from a
\* node to itself is no input: it is the explicit self-reference of the
\* node, its "this" slot.
InputsOf(up, n) == up[n] \ {n}

HasSelfReference(up, n) == n \in up[n]

RECURSIVE Ancestors(_, _, _)
\* Transitive upstream closure of the node set S, in at most k more rounds.
Ancestors(up, S, k) ==
    IF k = 0 THEN S
    ELSE LET T == S \cup UNION { up[n] : n \in S }
         IN  IF T = S THEN S ELSE Ancestors(up, T, k - 1)

\* The transitive upstream dependencies of n, n included.
UpstreamClosure(up, n) == Ancestors(up, {n}, NumNodes)

\* All sequences that list every element of S exactly once.
Orderings(S) ==
    { s \in [1..Cardinality(S) -> S] : \A i, j \in 1..Cardinality(S) : s[i] = s[j] => i = j }

\* s lists each node after all of its upstream dependencies.
IsExecutionOrder(up, s) ==
    \A i \in 1..Len(s) : \A u \in InputsOf(up, s[i]) : \E j \in 1..(i - 1) : s[j] = u

\* get_all_upstream_dependencies_in_execution_order(node): the topological
\* orders of the upstream closure of node.
UpstreamDependenciesInExecutionOrder(up, n) ==
    { s \in Orderings(UpstreamClosure(up, n)) : IsExecutionOrder(up, s) }

\* get_all_nodes_in_execution_order(): the topological orders of the graph.
AllNodesInExecutionOrder(up) ==
    { s \in Orderings(Nodes) : IsExecutionOrder(up, s) }

\* -------------------------------------------------------------- state --

VARIABLES
    nodes,        \* the nodes created in the graph
    upstream,     \* the flattened graph
    repeatable,   \* per node, what its pipe declares: repeatable or single-shot
    pipes,        \* per node, the declared interface of its pipe, if known
    committed,    \* the committed records of the metadata store
    library,      \* the otype keys of the component library
    nextId,       \* source of fresh block identities
    pc,           \* position of the running operation
    op,           \* the running operation
    target,       \* its node (or otype key) argument
    toExh,        \* its to_exhaustion argument
    deps,         \* the nodes it is to run, in order
    idx,          \* position in deps of the node being run
    open,         \* the sessions that are open
    opened,       \* sessions opened so far; the latest one has this id
    pending,      \* records written in the current session, not committed
    scope,        \* what happened to the current session
    nInv,         \* pipe invocations of the current node execution
    nProd,        \* Produced outcomes of the current node execution
    lastOutcome,  \* outcome of the latest pipe invocation
    output,       \* block id returned by the latest em.run (0: none)
    error,        \* the exception in flight, or received by the caller
    failure,      \* history: the error first raised in this operation
    failedAt,     \* history: position in deps of the node that raised it
    runLog,       \* history: the nodes run by this operation, with their session
    callCommitted,\* history: the records committed by this operation, by node
    aborted,      \* history: records that were pending when their scope raised
    exhaustedAt,  \* history: positions in deps whose loop ended with Exhausted
    registry,     \* the registered converters
    replicas,     \* the replicas of the block that is being converted
    cvSource,     \* resolve: the source replica
    cvTarget,     \* resolve: the requested (storage, format)
    plan,         \* resolve: the conversion path found, a sequence of formats
    hop,          \* resolve: position in plan of the replica to convert next
    hopsRun,      \* history: the converter hops started by this operation
    result,       \* resolve: the replica returned (0: none)
    thisBound,    \* the blocks bound to the self-reference slot of this run
    deleting,     \* records deleted in the current session, not committed
    runs,         \* history: the node runs that committed, with their blocks
    calls,        \* history: the operations that ended before this one
    deleteMemory, \* validate_and_clean_data_blocks: its delete_memory argument
    storages,     \* Environment.storages: the storages of the environment, in order
    execution_kwargs,  \* the **execution_kwargs of the running operation
    metadata_sessions, \* Environment._metadata_sessions: the sessions handed out
    sess          \* the session scope around a test graph, and what happened to it

vars == << nodes, upstream, repeatable, pipes, committed, library, nextId, pc, op,
           target, toExh, deps, idx, open, opened, pending, scope, nInv,
           nProd, lastOutcome, output, error, failure, failedAt, runLog,
           callCommitted, aborted, exhaustedAt, registry, replicas, cvSource,
           cvTarget, plan, hop, hopsRun, result, thisBound, deleting, runs,
           calls, deleteMemory, storages, execution_kwargs, metadata_sessions,
           sess >>

\* The keyword arguments of the operation, the sessions that the
\* environment handed out and the scope that a caller opened around its
\* calls.
envVars == << execution_kwargs, metadata_sessions, sess >>

\* The bindings of the running node and what the environment keeps from
\* one operation to the next.
runsVars == << thisBound, deleting, runs, calls, deleteMemory, storages, envVars >>

\* The state of the conversion engine.
conversionVars == << registry, replicas, cvSource, cvTarget, plan, hop,
                     hopsRun, result >>

graphVars == << nodes, upstream, repeatable, pipes >>

\* A pipe declares whether it is repeatable (streaming/incremental) or
\* single-shot.  The declaration of a node's pipe is fixed; the model settles
\* it when the engine first reads it.
Undeclared == "undeclared"

Declarations == {"repeatable", "single-shot"}

\* A call without keyword arguments.
NoKeywords == << >>

\* A session on which nothing has been called yet.
NewScope == [ commits |-> 0, rollbacks |-> 0, closes |-> 0,
              bodyRaised |-> FALSE, commitRaised |-> FALSE ]

\* The block and replica records a Produced outcome registers for node n in
\* session s: a new Block with a fresh identity and its first Replica.
BlockRecord(id, n, s) == [ kind |-> "block", id |-> id, node |-> n, session |-> s ]

\* The record of a replica of block id, written in session s: where the
\* replica is and the records object it holds.
ReplicaRecord(id, n, s, sf, d) ==
    [ kind |-> "replica", id |-> id, node |-> n, session |-> s, sf |-> sf,
      data |-> d ]

OtypeRecord(k, s) == [ kind |-> "otype", id |-> k, node |-> 0, session |-> s ]

\* ------------------------------------------------ Environment.storages --

\* A Storage object, known by its url.
Storage(url) == [ kind |-> "Storage", url |-> url ]

\* new_local_memory_storage(): the storage the constructor keeps as
\* _local_memory_storage.
LocalMemoryStorage == Storage("memory://_local_")

\* The urls of the storages given to the environment.
StorageUrls == { "memory://_local_", "postgresql://localhost/db", "file:///data" }

\* The arguments of add_storage: a url string, a Storage object, or a value
\* that is neither.
StorageLikes ==
    { [ kind |-> "str", url |-> u ] : u \in StorageUrls } \cup
    { Storage(u) : u \in StorageUrls } \cup
    { [ kind |-> "int", url |-> "" ] }

\* add_storage(storage_like) on the list sts: a url string becomes a Storage,
\* a Storage is taken as it is, anything else is a TypeError; the storage is
\* appended to the list and returned.
AddStorage(sts, storage_like) ==
    IF storage_like.kind = "str"
    THEN [ raised |-> NoError, value |-> Storage(storage_like.url),
           storages |-> Append(sts, Storage(storage_like.url)) ]
    ELSE IF storage_like.kind = "Storage"
    THEN [ raised |-> NoError, value |-> storage_like, storages |-> Append(sts, storage_like) ]
    ELSE [ raised |-> "TypeError", value |-> None, storages |-> sts ]

\* Variant of TargetStorage: without an argument the target is the storage
\* that was added last.
TargetStorageLatest(sts, target_storage) ==
    IF target_storage = Nothing
    THEN IF sts # << >> THEN Some(sts[Len(sts)]) ELSE Nothing
    ELSE target_storage

\* get_execution_context: the target storage passed, or the first storage of
\* the list when none is passed, or none when the list is empty.
TargetStorage(sts, target_storage) ==
    IF target_storage = Nothing
    THEN IF sts # << >> THEN Some(sts[1]) ELSE Nothing
    ELSE target_storage

\* The keywords of ExecutionContext that **kwargs of get_execution_context
\* may set: those that the function passes itself, but for graph and
\* target_storage, which are parameters of its own.
ContextKeywords ==
    { "env", "metadata_session", "runtimes", "storages", "local_memory_storage" }

\* get_execution_context(graph, session, target_storage, **kwargs): the
\* arguments of the ExecutionContext that concern storage, updated with
\* kwargs; ExecutionContext(**args) raises TypeError for a keyword that it
\* does not take.
ExecutionContext(sts, target_storage, kwargs) ==
    LET args == [ storages |-> sts,
                  target_storage |-> TargetStorage(sts, target_storage),
                  local_memory_storage |-> LocalMemoryStorage ]
    IN  IF DOMAIN kwargs \subseteq ContextKeywords
        THEN Returned([ k \in DOMAIN args |->
                          IF k \in DOMAIN kwargs THEN kwargs[k] ELSE args[k] ])
        ELSE Raised("TypeError")

\* The keyword arguments that produce, run_node and run_graph are called
\* with and hand on to Environment.execution: none, or one that the
\* execution context does not take.
ExecutionKwargs == { NoKeywords, [ bogus |-> 1 ] }

\* execution(graph, target_storage=None, **kwargs) called with **kw: the
\* target storage among the keywords, if any.
ExecutionTarget(kw) ==
    IF "target_storage" \in DOMAIN kw THEN kw.target_storage ELSE Nothing

\* The keywords of kw that execution hands on to get_execution_context.
ExecutionRest(kw) == [ k \in DOMAIN kw \ {"target_storage"} |-> kw[k] ]

\* No session scope around the calls on the environment, and no target
\* storage given for the test graph.
NoSession == [ session |-> 0, commits |-> 0, rollbacks |-> 0, closes |-> 0,
               bodyRaised |-> NoError, commitRaised |-> NoError,
               target_storage |-> Nothing ]

\* The environment after construction, with one of the graphs of G.
InitWith(N, G, P) ==
    /\ nodes = N
    /\ upstream \in G
    /\ repeatable = [ n \in Nodes |-> Undeclared ]
    /\ pipes \in P
    /\ committed = {}
    /\ library = {}
    /\ nextId = 1
    /\ pc = "idle"
    /\ op = "none"
    /\ target = 0
    /\ toExh = FALSE
    /\ deps = << >>
    /\ idx = 0
    /\ open = {}
    /\ opened = 0
    /\ pending = {}
    /\ scope = NewScope
    /\ nInv = 0
    /\ nProd = 0
    /\ lastOutcome = "none"
    /\ output = 0
    /\ error = NoError
    /\ failure = NoError
    /\ failedAt = 0
    /\ runLog = << >>
    /\ callCommitted = {}
    /\ aborted = {}
    /\ exhaustedAt = {}
    /\ registry = {}
    /\ replicas = {}
    /\ cvSource = 0
    /\ cvTarget = "none"
    /\ plan = << >>
    /\ hop = 0
    /\ hopsRun = << >>
    /\ result = 0
    /\ thisBound = {}
    /\ deleting = {}
    /\ runs = << >>
    /\ calls = << >>
    /\ deleteMemory = FALSE
    /\ storages = AddStorage(<< >>, LocalMemoryStorage).storages
    /\ execution_kwargs = NoKeywords
    /\ metadata_sessions = << >>
    /\ sess = NoSession

\* The graphs of G, the interfaces of their pipes not looked into.
InitOn(G) == InitWith(Nodes, G, { [ n \in Nodes |-> Nothing ] })

Init == InitOn(Graphs)

\* Start of an operation on the constructed environment.
Begin(o, t, te, ds) ==
    /\ pc = "idle"
    /\ op' = o
    /\ target' = t
    /\ toExh' = te
    /\ deps' = ds
    /\ idx' = 1
    /\ pending' = {}
    /\ scope' = NewScope
    /\ nInv' = 0
    /\ nProd' = 0
    /\ lastOutcome' = "none"
    /\ output' = 0
    /\ error' = NoError
    /\ failure' = NoError
    /\ failedAt' = 0
    /\ runLog' = << >>
    /\ callCommitted' = {}
    /\ aborted' = {}
    /\ exhaustedAt' = {}
    /\ UNCHANGED << graphVars, committed, library, nextId, open, opened >>

\* ---------------------------------------------------- building the graph --

\* Graph.create_node(key, pipe, config, upstream): a node is added to the
\* graph under its key, its inputs bound to the upstream nodes given; a
\* slot that is a self-reference is bound to no input node, the node refers
\* to itself.
create_node(key, ups, self_reference) ==
    /\ pc = "idle"
    /\ key \notin nodes
    /\ nodes' = nodes \cup {key}
    /\ upstream' = [ upstream EXCEPT ![key] = ups \cup (IF self_reference THEN {key} ELSE {}) ]
    /\ UNCHANGED << runsVars, conversionVars, repeatable, pipes, committed, library,
                    nextId, pc, op, target, toExh, deps, idx, open, opened,
                    pending, scope, nInv, nProd, lastOutcome, output, error,
                    failure, failedAt, runLog, callCommitted, aborted,
                    exhaustedAt >>

\* ------------------------------------------------- Environment.produce --

\* Variant of CurrentDep: the loop walks the dependencies from the end.
CurrentDepReversed(ds, i) == ds[Len(ds) + 1 - i]

\* produce: `for dep in dependencies` takes the dependencies in the order
\* the graph returned them.
CurrentDep(ds, i) == ds[i]

\* Variant of RunToExhaustion: the flag is dropped and em.run is left with
\* the default of the operations, True.
RunToExhaustionAlways(te) == TRUE

\* produce, run_node, run_graph: em.run(..., to_exhaustion=to_exhaustion)
\* hands the caller's flag on unchanged.
RunToExhaustion(te) == te

\* Variant of produce: a node that has output is not run again; the call
\* returns the block it produced last.
produceReturnsLatestOutput(n, te, kwargs) ==
    /\ pc = "idle"
    /\ IF \E b \in committed : b.kind = "block" /\ b.node = n
       THEN /\ op' = "produce"
            /\ target' = n
            /\ toExh' = te
            /\ deps' = << >>
            /\ idx' = 1
            /\ pending' = {}
            /\ scope' = NewScope
            /\ nInv' = 0
            /\ nProd' = 0
            /\ lastOutcome' = "none"
            /\ output' = CHOOSE i \in { b.id : b \in { b \in committed : b.kind = "block" /\ b.node = n } } :
                             \A b \in committed : (b.kind = "block" /\ b.node = n) => b.id <= i
            /\ error' = NoError
            /\ failure' = NoError
            /\ failedAt' = 0
            /\ runLog' = << >>
            /\ callCommitted' = {}
            /\ aborted' = {}
            /\ exhaustedAt' = {}
            /\ pc' = "returned"
            /\ UNCHANGED << graphVars, committed, library, nextId, open, opened >>
       ELSE /\ \E ds \in UpstreamDependenciesInExecutionOrder(upstream, n) :
                   Begin("produce", n, te, ds)
            /\ pc' = "loop"
    /\ execution_kwargs' = kwargs
    /\ UNCHANGED << thisBound, deleting, runs, calls, deleteMemory, storages,
                    metadata_sessions, sess, conversionVars >>

\* produce(graph, node, to_exhaustion): the dependencies of node in
\* execution order, each to be run in its own execution scope.
produce(n, te, kwargs) ==
    /\ pc = "idle"
    /\ \E ds \in UpstreamDependenciesInExecutionOrder(upstream, n) :
           Begin("produce", n, te, ds)
    /\ pc' = "loop"
    /\ execution_kwargs' = kwargs
    /\ UNCHANGED << thisBound, deleting, runs, calls, deleteMemory, storages,
                    metadata_sessions, sess, conversionVars >>

\* Variant of run_node: the upstream dependencies of the node are run before
\* it, as produce does.
run_node_with_dependencies(n, te, kwargs) ==
    /\ pc = "idle"
    /\ \E ds \in UpstreamDependenciesInExecutionOrder(upstream, n) :
           Begin("run_node", n, te, ds)
    /\ pc' = "loop"
    /\ execution_kwargs' = kwargs
    /\ UNCHANGED << thisBound, deleting, runs, calls, deleteMemory, storages,
                    metadata_sessions, sess, conversionVars >>

\* run_node(graph, node, to_exhaustion): the flattened root node of node
\* alone (the bounded graphs hold no composite node: it is node itself).
run_node(n, te, kwargs) ==
    /\ Begin("run_node", n, te, << n >>)
    /\ pc' = "loop"
    /\ execution_kwargs' = kwargs
    /\ UNCHANGED << thisBound, deleting, runs, calls, deleteMemory, storages,
                    metadata_sessions, sess, conversionVars >>

\* Variant of run_graph: the nodes are run in the order the graph holds
\* them, whatever their dependencies.
run_graph_in_any_order(te, kwargs) ==
    /\ pc = "idle"
    /\ \E ds \in Orderings(Nodes) :
           Begin("run_graph", 0, te, ds)
    /\ pc' = "loop"
    /\ execution_kwargs' = kwargs
    /\ UNCHANGED << thisBound, deleting, runs, calls, deleteMemory, storages,
                    metadata_sessions, sess, conversionVars >>

\* run_graph(graph, to_exhaustion): every node of the flattened graph.
run_graph(te, kwargs) ==
    /\ pc = "idle"
    /\ \E ds \in AllNodesInExecutionOrder(upstream) :
           Begin("run_graph", 0, te, ds)
    /\ pc' = "loop"
    /\ execution_kwargs' = kwargs
    /\ UNCHANGED << thisBound, deleting, runs, calls, deleteMemory, storages,
                    metadata_sessions, sess, conversionVars >>

\* ------------------------------ produce_pipe_output_for_static_input --

\* The session of the with statement is open: the body of
\* produce_pipe_output_for_static_input, or the body of its caller, runs.
InStaticInputScope == sess.session # 0 /\ sess.closes = 0

\* The values of the parameter target_storage of
\* produce_pipe_output_for_static_input: None, what add_storage is called
\* with, or the empty string.
StaticInputTargets ==
    { Nothing } \cup
    { Some(storage_like) : storage_like \in StorageLikes \cup { [ kind |-> "str", url |-> "" ] } }

\* `if target_storage:`: None and the empty string are false; a url, a
\* Storage object and a number other than 0 are true.
Truthy(target_storage) ==
    /\ target_storage # Nothing
    /\ ~(target_storage[1].kind = "str" /\ target_storage[1].url = "")

\* The lines before the body: `if target_storage: target_storage =
\* env.add_storage(target_storage)` appends a target storage that is true
\* to the list of the environment, or raises TypeError, which leaves the
\* function before any session exists; a target storage that is false is
\* left as it is.  Then `with env.session_scope() as sess:` is entered and
\* a session is opened before any node is created.
StaticInputScopeOpen(target_storage) ==
    /\ pc = "idle"
    /\ sess = NoSession
    /\ LET r == IF ~Truthy(target_storage)
                THEN [ raised |-> NoError, value |-> target_storage, storages |-> storages ]
                ELSE LET added == AddStorage(storages, target_storage[1])
                     IN  [ added EXCEPT !.value = Some(added.value) ]
       IN  IF r.raised = NoError
           THEN /\ storages' = r.storages
                /\ opened' = opened + 1
                /\ open' = open \cup {opened + 1}
                /\ sess' = [ NoSession EXCEPT !.session = opened + 1,
                                              !.target_storage = r.value ]
                /\ UNCHANGED << pc, error, failure >>
           ELSE /\ error' = r.raised
                /\ failure' = r.raised
                /\ pc' = "raised"
                /\ UNCHANGED << storages, opened, open, sess >>
    /\ UNCHANGED << thisBound, deleting, runs, calls, deleteMemory,
                    execution_kwargs, metadata_sessions, conversionVars,
                    graphVars, committed, library, nextId, op, target,
                    toExh, deps, idx, pending, scope, nInv, nProd,
                    lastOutcome, output, failedAt, runLog,
                    callCommitted, aborted, exhaustedAt >>

\* The input nodes and the test node are created inside the scope; the
\* upstream of the test node is input_nodes, nodes that create_node
\* returned before.
StaticInputCreateNode(key, ups, self_reference) ==
    /\ InStaticInputScope
    /\ ups \subseteq nodes
    /\ create_node(key, ups, self_reference)

\* db = env.produce(test_node, to_exhaustion=False,
\* target_storage=target_storage): called inside the scope, whose session
\* stays open beside the session of each execution, with the storage that
\* add_storage returned, or the false value that was given, as the target
\* storage.
StaticInputProduce(n) ==
    /\ InStaticInputScope
    /\ produce(n, FALSE, [ target_storage |-> sess.target_storage ])

\* What the body of the with statement may raise: an assertion on the
\* inputs, a missing input, an interrupt, the close of the generator.
BodyErrors == { "AssertionError", "KeyError", "KeyboardInterrupt", "GeneratorExit" }

\* The with statement is left.  Its body raises before produce is called
\* (get_interface, an assertion on the inputs, a missing input), produce
\* raises, or the body of the caller, which `yield db` handed the block to,
\* raises: session_scope rolls back when the error is an Exception, and in
\* any case the error goes on and the session is closed.  The body of the
\* caller ends: session_scope commits and closes the session; when the
\* commit raises an Exception, it rolls back, raises again and closes the
\* session; any other error of the commit goes on past the rollback, and
\* the session is closed.
StaticInputScopeExit(bodyRaises, commitRaises) ==
    /\ InStaticInputScope
    /\ pc \in {"idle", "returned", "raised"}
    /\ pc = "idle" => bodyRaises # NoError
    /\ pc = "raised" => bodyRaises = error
    /\ bodyRaises # NoError => commitRaises = NoError
    /\ sess' = [ sess EXCEPT !.bodyRaised = bodyRaises,
                             !.commitRaised = commitRaises,
                             !.commits = IF bodyRaises # NoError THEN 0 ELSE 1,
                             !.rollbacks =
                                 IF \/ bodyRaises \notin {NoError} \cup BaseExceptions
                                    \/ commitRaises \notin {NoError} \cup BaseExceptions
                                 THEN 1 ELSE 0,
                             !.closes = 1 ]
    /\ open' = open \ {sess.session}
    /\ UNCHANGED << thisBound, deleting, runs, calls, deleteMemory, storages,
                    execution_kwargs, metadata_sessions, conversionVars,
                    graphVars, committed, library, nextId, pc, op, target,
                    toExh, deps, idx, opened, pending, scope, nInv, nProd,
                    lastOutcome, output, error, failure, failedAt, runLog,
                    callCommitted, aborted, exhaustedAt >>

\* The lines of Environment.execution before its try statement when the
\* execution context cannot be built: the session is created, then
\* get_execution_context raises; no except or finally clause is around
\* these lines, so the error leaves the operation with the session open.
ExecutionEnterRaises ==
    /\ pc = "loop"
    /\ idx <= Len(deps)
    /\ LET ec == ExecutionContext(storages, ExecutionTarget(execution_kwargs),
                                  ExecutionRest(execution_kwargs))
       IN  /\ ec.raised # NoError
           /\ error' = ec.raised
           /\ failure' = ec.raised
    /\ failedAt' = idx
    /\ opened' = opened + 1
    /\ open' = open \cup {opened + 1}
    /\ scope' = NewScope
    /\ pending' = {}
    /\ nInv' = 0
    /\ nProd' = 0
    /\ lastOutcome' = "none"
    /\ thisBound' = {}
    /\ pc' = "raised"
    /\ UNCHANGED << deleting, runs, calls, deleteMemory, storages, envVars, conversionVars,
                    graphVars, committed, library, nextId, op, target, toExh,
                    deps, idx, output, runLog, callCommitted, aborted,
                    exhaustedAt >>

\* The lines of Environment.execution before its yield: a new session, the
\* execution context and manager; then the body calls em.run(dep).
ExecutionEnter ==
    /\ pc = "loop"
    /\ idx <= Len(deps)
    /\ ExecutionContext(storages, ExecutionTarget(execution_kwargs),
                        ExecutionRest(execution_kwargs)).raised = NoError
    /\ pc' = "run"
    /\ opened' = opened + 1
    /\ open' = open \cup {opened + 1}
    /\ scope' = NewScope
    /\ pending' = {}
    /\ nInv' = 0
    /\ nProd' = 0
    /\ lastOutcome' = "none"
    /\ thisBound' = {}
    /\ runLog' = Append(runLog, [ node |-> CurrentDep(deps, idx), session |-> opened + 1 ])
    /\ UNCHANGED << deleting, runs, calls, deleteMemory, storages, envVars, conversionVars, graphVars, committed, library, nextId, op, target,
                    toExh, deps, idx, output, error, failure, failedAt,
                    callCommitted, aborted,
                    exhaustedAt >>

\* The node that em.run is running.
RunningNode == runLog[Len(runLog)].node

\* ------------------------------------------------ bound inputs, pipes --

\* The blocks of node n among the records R.
BlocksOfNode(R, n) == { r \in R : r.kind = "block" /\ r.node = n }

\* The latest output of node n: the block(s) of its most recent run that
\* committed any.
LatestOutput(R, n) ==
    { b.id : b \in { b \in BlocksOfNode(R, n) :
                       \A c \in BlocksOfNode(R, n) : c.session <= b.session } }

\* The self-reference slot of node n binds to the node's own prior output
\* if one exists; else, and for a node without the slot, it is omitted.
ThisBinding(R, up, n) == IF HasSelfReference(up, n) THEN LatestOutput(R, n) ELSE {}

\* The input slots of node n bind to the latest output of its upstream
\* nodes.
InputBinding(R, up, n) == UNION { LatestOutput(R, u) : u \in InputsOf(up, n) }

\* The replicas of block id among the records R.
ReplicasOf(R, id) == { r \in R : r.kind = "replica" /\ r.id = id }

\* Every bound block can be read: it has a replica.
Readable(R, ids) == \A id \in ids : ReplicasOf(R, id) # {}

\* block.as_dataframe(): the dataframe replica of the block; the conversion
\* engine makes it from the records list when the block has none.
as_dataframe(R, id) ==
    LET rs == ReplicasOf(R, id)
    IN  IF \E r \in rs : r.sf.format = "DataFrame"
        THEN (CHOOSE r \in rs : r.sf.format = "DataFrame").data
        ELSE records_list_to_dataframe(
                 (CHOOSE r \in rs : r.sf.format = "RecordsList").data)

\* The replicas that binding the blocks ids registers in session s: a
\* dataframe replica for every bound block that had none.
BoundReplicas(R, ids, s) ==
    { ReplicaRecord(id, (CHOOSE r \in ReplicasOf(R, id) : TRUE).node, s,
                    StorageFormat("memory", "DataFrame"), as_dataframe(R, id)) :
        id \in { i \in ids : \A r \in ReplicasOf(R, i) : r.sf.format # "DataFrame" } }

RECURSIVE InOrder(_)
\* The block ids of S in the order the blocks were created.
InOrder(S) ==
    IF S = {} THEN << >>
    ELSE LET m == CHOOSE x \in S : \A y \in S : x <= y
         IN  << m >> \o InOrder(S \ {m})

\* The dataframes of the blocks ids, in order.
Frames(R, ids) ==
    LET o == InOrder(ids) IN [ i \in 1..Len(o) |-> as_dataframe(R, o[i]) ]

\* The records that the static resource of source node n holds: one row
\* with a value and a null; the resources of the first two nodes fill one
\* column, those of the others the other.
StaticRecords(n) ==
    << [ c \in Columns |->
           IF c = (IF n <= 2 THEN "a" ELSE "b")
           THEN (IF n % 2 = 1 THEN "1" ELSE "2") ELSE None ] >>

\* Variant of dataframe_accumulator: the self-reference is ignored.
dataframe_accumulator_drops_this(input, this) == input

\* Variant of dataframe_accumulator: without this, the records of the input
\* are appended to themselves.
dataframe_accumulator_appends_always(input, this) ==
    IF this # << >> THEN Concat(<< Concat(this), input >>)
    ELSE Concat(<< input, input >>)

\* dataframe_accumulator(input, this=None): the records of the input;
\* when this is bound, the records of this with those of the input appended.
\* this is the sequence of the bound dataframes, empty for None.
dataframe_accumulator(input, this) ==
    IF this # << >> THEN Concat(<< Concat(this), input >>) ELSE input

\* What the pipe of node n returns when it produces, its inputs and its
\* self-reference bound to the blocks ins and this of the records R: a node
\* without inputs extracts its static records, as extract_csv does; a node
\* with inputs is an accumulator (pipe_self, dataframe_accumulator).
PipeOutput(R, n, ins, this) ==
    IF InputsOf(upstream, n) = {} /\ this = {}
    THEN [ sf |-> StorageFormat("memory", "RecordsList"), data |-> StaticRecords(n) ]
    ELSE [ sf |-> StorageFormat("memory", "DataFrame"),
           data |-> dataframe_accumulator(Concat(Frames(R, ins)), Frames(R, this)) ]

\* ------------------------------------------- ExecutionManager.run loop --

\* Step 4 of the per-node execution: after Produced the pipe is invoked
\* again iff to_exhaustion is set and the pipe declares itself repeatable.
InvokeAgain(te, decl) == te /\ decl = "repeatable"

\* What the pipe of node n declares, read by the loop only when
\* to_exhaustion is set.
ReadDeclarations(te, n) ==
    IF te /\ repeatable[n] = Undeclared THEN Declarations ELSE { repeatable[n] }

\* Step 1 fails: binding the inputs raises before the pipe is invoked.
BindFails ==
    /\ pc = "run"
    /\ \E e \in BindErrors :
        /\ error' = e
        /\ failure' = e
        /\ pc' = IF e \in BaseExceptions THEN "finally" ELSE "except"
    /\ failedAt' = idx
    /\ lastOutcome' = "BindFailed"
    /\ scope' = [ scope EXCEPT !.bodyRaised = TRUE ]
    /\ aborted' = aborted \cup pending
    /\ UNCHANGED << runsVars, conversionVars, graphVars, committed, library, nextId, op, target,
                    toExh, deps, idx, open, opened, pending, nInv, nProd,
                    output, runLog, callCommitted,
                    exhaustedAt >>

\* Steps 2 to 4: the invocation returns Produced; a new Block and its
\* Replica are registered in the session; the loop goes on or ends.
\* The blocks that the running node binds: those of its input slots and
\* those of its self-reference.
Bound ==
    InputBinding(committed, upstream, RunningNode) \cup
    ThisBinding(committed, upstream, RunningNode)

InvokeProduced ==
    /\ pc = "run"
    /\ nProd < MaxProduced
    /\ nInv' = nInv + 1
    /\ nProd' = nProd + 1
    /\ lastOutcome' = "Produced"
    /\ Readable(committed, Bound)
    /\ thisBound' = ThisBinding(committed, upstream, RunningNode)
    /\ LET R == committed \cup pending
           out == PipeOutput(R, RunningNode,
                             InputBinding(committed, upstream, RunningNode),
                             ThisBinding(committed, upstream, RunningNode))
       IN  pending' = pending \cup BoundReplicas(R, Bound, opened) \cup
                      { BlockRecord(nextId, RunningNode, opened),
                        ReplicaRecord(nextId, RunningNode, opened, out.sf, out.data) }
    /\ output' = nextId
    /\ nextId' = nextId + 1
    /\ \E decl \in ReadDeclarations(RunToExhaustion(toExh), RunningNode) :
        /\ repeatable' = [ repeatable EXCEPT ![RunningNode] = decl ]
        /\ pc' = IF InvokeAgain(RunToExhaustion(toExh), decl) THEN "run" ELSE "commit"
    /\ UNCHANGED << deleting, runs, calls, deleteMemory, storages, envVars, conversionVars, nodes, upstream, pipes, committed, library, op, target, toExh,
                    deps, idx, open, opened, scope, error, failure, failedAt,
                    runLog, callCommitted, aborted,
                    exhaustedAt >>

\* Step 5: the invocation signals Exhausted; the loop ends normally and
\* em.run returns its latest output, none when nothing was produced.
InvokeExhausted ==
    /\ pc = "run"
    /\ Readable(committed, Bound)
    /\ thisBound' = ThisBinding(committed, upstream, RunningNode)
    /\ pending' = pending \cup BoundReplicas(committed \cup pending, Bound, opened)
    /\ nInv' = nInv + 1
    /\ lastOutcome' = "Exhausted"
    /\ output' = IF nProd = 0 THEN 0 ELSE output
    /\ exhaustedAt' = exhaustedAt \cup {idx}
    /\ pc' = "commit"
    /\ UNCHANGED << deleting, runs, calls, deleteMemory, storages, envVars, conversionVars, graphVars, committed, library, nextId, op, target,
                    toExh, deps, idx, open, opened, scope, nProd,
                    error, failure, failedAt, runLog, callCommitted, aborted >>

\* Step 6: the invocation (or registering its output) fails, or the call is
\* interrupted while it runs; the error leaves em.run.  An Exception is
\* taken by the except clause of Environment.execution; any other error
\* passes it, no rollback is called, and finally is next.
InvokeFailed ==
    /\ pc = "run"
    /\ \E e \in InvokeErrors \cup Interrupts :
        /\ error' = e
        /\ failure' = e
        /\ pc' = IF e \in BaseExceptions THEN "finally" ELSE "except"
    /\ failedAt' = idx
    /\ nInv' = nInv + 1
    /\ lastOutcome' = "Failed"
    /\ scope' = [ scope EXCEPT !.bodyRaised = TRUE ]
    /\ aborted' = aborted \cup pending
    /\ UNCHANGED << runsVars, conversionVars, graphVars, committed, library, nextId, op, target,
                    toExh, deps, idx, open, opened, pending, nProd, output,
                    runLog, callCommitted,
                    exhaustedAt >>

\* ------------------------------------------------ pipe interface resolver --

\* The names of the data parameters, in the order the callables take them.
SlotNames == << "input", "other_ds_t2" >>

\* The schema bindings that are type variables; any other is a concrete
\* schema.
TypeVariables == {"T"}

\* A declared input slot: its name, whether it is required, and its schema
\* binding.
InputSlot(name, required, schema_like) ==
    [ name |-> name, required |-> required, schema_like |-> schema_like ]

\* The upstream node that the graph wires to the k-th slot of node n, when
\* it wires one.
SlotUpstream(n, k) == n + k

\* The realized schema of a block, inferred from its data: the fields that
\* hold a value.
realized_schema(df) == { c \in Columns : \E i \in 1..NumRows(df) : df[c][i] # NaT }

\* What the slots of node n are bound to in the graph up, its blocks among
\* the records R: per slot, whether an upstream is bound, and the realized
\* schemas of the blocks that it brings.
BoundUpstreams(R, up, n, interface) ==
    [ k \in 1..Len(interface) |->
        IF SlotUpstream(n, k) \in InputsOf(up, n)
        THEN [ bound |-> TRUE,
               schemas |-> { realized_schema(as_dataframe(R, id)) :
                               id \in LatestOutput(R, SlotUpstream(n, k)) } ]
        ELSE [ bound |-> FALSE, schemas |-> {} ] ]

\* Variant of resolve_interface: the slots that share a type variable are
\* not unified.
resolve_interface_without_unification(interface, bound) ==
    IF \E k \in 1..Len(interface) : interface[k].required /\ ~bound[k].bound
    THEN Raised("InterfaceBindingError")
    ELSE Returned({ k \in 1..Len(interface) : bound[k].bound })

\* Variant of resolve_interface: a slot without upstream is left out,
\* required or not.
resolve_interface_omits_unbound(interface, bound) ==
    IF \E j, k \in 1..Len(interface) :
           /\ interface[j].schema_like \in TypeVariables
           /\ interface[j].schema_like = interface[k].schema_like
           /\ \E s1 \in bound[j].schemas, s2 \in bound[k].schemas : s1 # s2
    THEN Raised("InterfaceBindingError")
    ELSE Returned({ k \in 1..Len(interface) : bound[k].bound })

\* resolve(pipe, boundUpstreams): a required slot with no bound upstream
\* raises InterfaceBindingError; so do slots bound to the same type variable
\* whose upstream realized schemas are not all structurally equal; otherwise
\* the interface resolves to the slots that are bound.
resolve_interface(interface, bound) ==
    IF \E k \in 1..Len(interface) : interface[k].required /\ ~bound[k].bound
    THEN Raised("InterfaceBindingError")
    ELSE IF \E j, k \in 1..Len(interface) :
                /\ interface[j].schema_like \in TypeVariables
                /\ interface[j].schema_like = interface[k].schema_like
                /\ \E s1 \in bound[j].schemas, s2 \in bound[k].schemas : s1 # s2
    THEN Raised("InterfaceBindingError")
    ELSE Returned({ k \in 1..Len(interface) : bound[k].bound })

\* The fields of the schemas that the pipes name.
SchemaFields(schema) ==
    CASE schema = "TestType1" -> {"a"}
      [] schema = "TestType4" -> {"a", "b"}

\* Two schemas are compatible if the fields of one are a subset of the
\* fields of the other.
Compatible(s1, s2) == s1 \subseteq s2 \/ s2 \subseteq s1

\* createBlock(nominalSchema): a block with its nominal schema and no
\* realized schema yet.
createBlock(nominal) == [ nominal |-> nominal, realized |-> {} ]

\* Variant of recordRealizedSchema: the schema is recorded unchecked.
recordRealizedSchemaUnchecked(block, schema) ==
    Returned([ block EXCEPT !.realized = @ \cup {schema} ])

\* recordRealizedSchema(block, schema): the schema is recorded with the
\* block; fails with SchemaMismatchError, the block as it was, if the schema
\* is incompatible with the nominal one.
recordRealizedSchema(block, schema) ==
    IF Compatible(schema, block.nominal)
    THEN Returned([ block EXCEPT !.realized = @ \cup {schema} ])
    ELSE Raised("SchemaMismatchError")

\* What the pipe of the running node returns when it produces, as a
\* dataframe.
ProducedFrame ==
    LET out == PipeOutput(committed \cup pending, RunningNode,
                          InputBinding(committed, upstream, RunningNode),
                          ThisBinding(committed, upstream, RunningNode))
    IN  IF out.sf.format = "RecordsList" THEN records_list_to_dataframe(out.data) ELSE out.data

\* Registering the output of the running node: a block is created with the
\* output schema of the pipe as its nominal schema, and the schema inferred
\* from the data returned is recorded as its realized schema.
Recorded ==
    recordRealizedSchema(createBlock(SchemaFields(pipes[RunningNode][1].output)),
                         realized_schema(ProducedFrame))

\* Steps 2 to 4, the realized schema of the output accepted.
ProducedRecorded ==
    /\ pc = "run"
    /\ Recorded.raised = NoError
    /\ InvokeProduced

\* Step 6: the pipe returned data and recording its realized schema fails.
RecordRaises ==
    /\ pc = "run"
    /\ nProd < MaxProduced
    /\ Readable(committed, Bound)
    /\ Recorded.raised # NoError
    /\ InvokeFailed
    /\ error' = Recorded.raised

\* Step 1 of the execution of the running node, its interface declared.
Resolution ==
    resolve_interface(pipes[RunningNode][1].inputs,
                      BoundUpstreams(committed, upstream, RunningNode,
                                     pipes[RunningNode][1].inputs))

\* Step 1 fails in the resolver: the error it raises leaves em.run before
\* the pipe is invoked.
ResolveRaises ==
    /\ pc = "run"
    /\ Resolution.raised # NoError
    /\ BindFails
    /\ error' = Resolution.raised

\* The interface resolves and the pipe is invoked, with each of its
\* outcomes.
ResolvedProduced ==
    /\ pc = "run"
    /\ Resolution.raised = NoError
    /\ InvokeProduced

ResolvedExhausted ==
    /\ pc = "run"
    /\ Resolution.raised = NoError
    /\ InvokeExhausted

ResolvedFailed ==
    /\ pc = "run"
    /\ Resolution.raised = NoError
    /\ InvokeFailed

\* -------------------------------------------------- static extract pipes --

\* What reading the file raises when it fails.  open(path): an OSError, or
\* its subclass for a file that is missing, is a directory or may not be
\* read; a TypeError for a path that is no path; a ValueError for a path
\* with a null byte or a negative file descriptor; a UnicodeEncodeError for
\* a path that cannot be encoded.  f.readlines(): a UnicodeDecodeError for
\* bytes that are no text.
ReadErrors ==
    { "OSError", "FileNotFoundError", "IsADirectoryError", "PermissionError",
      "TypeError", "ValueError", "UnicodeEncodeError", "UnicodeDecodeError" }

\* How the read of the file ends: without an exception, or with one.
ReadOutcomes == { NoError } \cup ReadErrors

\* The state of node n in the records R: the values that its pipe emitted
\* in a session of R; nothing was extracted until a record says so.
NodeState(R, n) ==
    [ extracted |-> \E r \in R : r.kind = "state" /\ r.node = n /\ r.extracted ]

\* The state st of node n as the session s holds it.
StateRecord(n, s, st) ==
    [ kind |-> "state", id |-> 0, node |-> n, session |-> s, extracted |-> st.extracted ]

\* What an invocation of a pipe comes back with: the exception it raised,
\* the value it returned (nothing for None), the state it left and the
\* schema it set for its output (nothing when it set none).
Invocation(e, v, st, schema) ==
    [ raised |-> e, returns |-> v, state |-> st, output_schema |-> schema ]

\* `if schema:` the values of the configuration that count as no schema.
Falsy == { None, "" }

\* Variant of extract_dataframe: the state is read and never emitted.
extract_dataframe_emits_nothing(state, config) ==
    IF state.extracted THEN Invocation(NoError, Nothing, state, Nothing)
    ELSE Invocation(NoError, Some(config.dataframe), state,
                    IF config.schema \in Falsy THEN Nothing ELSE Some(config.schema))

\* extract_dataframe(ctx): returns None when the state says extracted;
\* otherwise emits extracted = True, sets the schema of the configuration,
\* when it has one, as the schema of the output, and returns the dataframe
\* of the configuration.
extract_dataframe(state, config) ==
    IF state.extracted THEN Invocation(NoError, Nothing, state, Nothing)
    ELSE Invocation(NoError, Some(config.dataframe),
                    [ state EXCEPT !.extracted = TRUE ],
                    IF config.schema \in Falsy THEN Nothing ELSE Some(config.schema))

\* Variant of extract_csv: extracted is emitted before the file is read.
extract_csv_emits_before_read(state, config) ==
    IF state.extracted THEN Invocation(NoError, Nothing, state, Nothing)
    ELSE IF config.read # NoError
         THEN Invocation(config.read, Nothing, [ state EXCEPT !.extracted = TRUE ], Nothing)
         ELSE Invocation(NoError, Some(config.records),
                         [ state EXCEPT !.extracted = TRUE ], Nothing)

\* extract_csv(ctx): returns None when the state says extracted; otherwise
\* opens and reads the file of the configuration, which may raise, and only
\* then emits extracted = True and returns the records read.  The schema of
\* the configuration is not read.
extract_csv(state, config) ==
    IF state.extracted THEN Invocation(NoError, Nothing, state, Nothing)
    ELSE IF config.read # NoError
         THEN Invocation(config.read, Nothing, state, Nothing)
         ELSE Invocation(NoError, Some(config.records),
                         [ state EXCEPT !.extracted = TRUE ], Nothing)

\* The static pipe that node n is bound to.
ExtractPipe(n) == IF n % 2 = 1 THEN "extract_dataframe" ELSE "extract_csv"

\* The values that the field schema of a configuration takes: None, the
\* empty name, or the name of a schema.
ExtractSchemas == { None, "", "TestType1" }

\* The configuration of node n: the dataframe to extract, or the records of
\* the file at its path and how the read of that file ends at the time of
\* the call; and the schema, a field of both configurations.
ExtractConfig(n, read, schema) ==
    [ dataframe |-> records_list_to_dataframe(StaticRecords(n)),
      schema |-> schema,
      records |-> StaticRecords(n),
      read |-> read ]

\* ctx.set_output_schema(schema) as the session holds it: the schema set
\* for the block that the invocation returns.
OutputSchemaRecord(id, n, s, schema) ==
    [ kind |-> "output_schema", id |-> id, node |-> n, session |-> s, schema |-> schema ]

\* The schema record of the block id that the invocation r returned: one
\* when the pipe set a schema for its output.
OutputSchema(r, id) ==
    IF r.output_schema # Nothing
    THEN { OutputSchemaRecord(id, RunningNode, opened, r.output_schema[1]) }
    ELSE {}

\* The invocation of the pipe of the running node with its prior state.
Extract(read, schema) ==
    LET state == NodeState(committed \cup pending, RunningNode)
        config == ExtractConfig(RunningNode, read, schema)
    IN  IF ExtractPipe(RunningNode) = "extract_dataframe"
        THEN extract_dataframe(state, config)
        ELSE extract_csv(state, config)

\* The state record that an invocation leaves in the session: one when the
\* pipe emitted a value.
Emitted(r) ==
    IF r.state # NodeState(committed \cup pending, RunningNode)
    THEN { StateRecord(RunningNode, opened, r.state) }
    ELSE {}

\* The extract pipe returns its data: Produced; the Block, its Replica and
\* the emitted state are registered in the session.
ExtractProduced ==
    /\ pc = "run"
    /\ nProd < MaxProduced
    /\ \E read \in ReadOutcomes, schema \in ExtractSchemas :
        LET r == Extract(read, schema)
        IN  /\ r.raised = NoError
            /\ r.returns # Nothing
            /\ pending' = pending \cup Emitted(r) \cup OutputSchema(r, nextId) \cup
                   { BlockRecord(nextId, RunningNode, opened),
                     ReplicaRecord(nextId, RunningNode, opened,
                                   StorageFormat("memory",
                                       IF ExtractPipe(RunningNode) = "extract_dataframe"
                                       THEN "DataFrame" ELSE "RecordsList"),
                                   r.returns[1]) }
    /\ nInv' = nInv + 1
    /\ nProd' = nProd + 1
    /\ lastOutcome' = "Produced"
    /\ output' = nextId
    /\ nextId' = nextId + 1
    /\ \E decl \in ReadDeclarations(RunToExhaustion(toExh), RunningNode) :
        /\ repeatable' = [ repeatable EXCEPT ![RunningNode] = decl ]
        /\ pc' = IF InvokeAgain(RunToExhaustion(toExh), decl) THEN "run" ELSE "commit"
    /\ UNCHANGED << runsVars, conversionVars, nodes, upstream, pipes, committed, library, op, target, toExh,
                    deps, idx, open, opened, scope, error, failure, failedAt,
                    runLog, callCommitted, aborted,
                    exhaustedAt >>

\* The extract pipe returns None: nothing is registered and the loop ends
\* as it does on Exhausted.
ExtractReturnsNothing ==
    /\ pc = "run"
    /\ \E read \in ReadOutcomes, schema \in ExtractSchemas :
        LET r == Extract(read, schema)
        IN  /\ r.raised = NoError
            /\ r.returns = Nothing
            /\ pending' = pending \cup Emitted(r)
    /\ nInv' = nInv + 1
    /\ lastOutcome' = "Exhausted"
    /\ output' = IF nProd = 0 THEN 0 ELSE output
    /\ exhaustedAt' = exhaustedAt \cup {idx}
    /\ pc' = "commit"
    /\ UNCHANGED << runsVars, conversionVars, graphVars, committed, library, nextId, op, target,
                    toExh, deps, idx, open, opened, scope, nProd,
                    error, failure, failedAt, runLog, callCommitted, aborted >>

\* The extract pipe raises: the failure leaves em.run, with what the pipe
\* emitted before it raised still in the session.
ExtractFailed ==
    /\ pc = "run"
    /\ \E read \in ReadOutcomes, schema \in ExtractSchemas :
        LET r == Extract(read, schema)
        IN  /\ r.raised # NoError
            /\ error' = r.raised
            /\ failure' = r.raised
            /\ pending' = pending \cup Emitted(r)
            /\ aborted' = aborted \cup pending \cup Emitted(r)
            /\ pc' = IF r.raised \in BaseExceptions THEN "finally" ELSE "except"
    /\ failedAt' = idx
    /\ nInv' = nInv + 1
    /\ lastOutcome' = "Failed"
    /\ scope' = [ scope EXCEPT !.bodyRaised = TRUE ]
    /\ UNCHANGED << runsVars, conversionVars, graphVars, committed, library, nextId, op, target,
                    toExh, deps, idx, open, opened, nProd, output,
                    runLog, callCommitted,
                    exhaustedAt >>

\* ----------------------------------------- Environment.execution exit --

\* Variant of ExecutionCommit: the body returns and the session is left
\* without a commit, so that closing it discards what was written.
ExecutionCommitOmitted ==
    /\ pc = "commit"
    /\ pending' = {}
    /\ pc' = "finally"
    /\ UNCHANGED << runsVars, conversionVars, graphVars, committed, library, nextId, op, target, toExh,
                    deps, idx, open, opened, scope, nInv, nProd, lastOutcome,
                    output, error, failure, failedAt, runLog, callCommitted,
                    aborted, exhaustedAt >>

\* session.commit() after the body returned: the pending records become
\* committed records.
ExecutionCommit ==
    /\ pc = "commit"
    /\ committed' = committed \cup pending
    /\ callCommitted' = callCommitted \cup pending
    /\ pending' = {}
    /\ runs' = Append(runs, [ node |-> RunningNode, session |-> opened,
                              blocks |-> { r.id : r \in { r \in pending : r.kind = "block" } },
                              this |-> thisBound,
                              input |-> InputBinding(committed, upstream, RunningNode) ])
    /\ scope' = [ scope EXCEPT !.commits = @ + 1 ]
    /\ pc' = "finally"
    /\ UNCHANGED << thisBound, deleting, calls, deleteMemory, storages, envVars, conversionVars, graphVars, library, nextId, op, target, toExh,
                    deps, idx, open, opened, nInv, nProd, lastOutcome, output,
                    error, failure, failedAt, runLog, aborted,
                    exhaustedAt >>

\* session.commit() raises: control passes to the except clause when the
\* error is an Exception, and past it to finally when it is not.
ExecutionCommitFails ==
    /\ pc = "commit"
    /\ scope' = [ scope EXCEPT !.commits = @ + 1, !.commitRaised = TRUE ]
    /\ \E e \in CommitErrors :
        /\ error' = e
        /\ failure' = e
        /\ pc' = IF e \in BaseExceptions THEN "finally" ELSE "except"
    /\ failedAt' = idx
    /\ aborted' = aborted \cup pending
    /\ UNCHANGED << runsVars, conversionVars, graphVars, committed, library, nextId, op, target,
                    toExh, deps, idx, open, opened, pending, nInv, nProd,
                    lastOutcome, output, runLog, callCommitted,
                    exhaustedAt >>

\* Variant of ExecutionExcept: the except clause re-raises without
\* session.rollback().
ExecutionExceptNoRollback ==
    /\ pc = "except"
    /\ pc' = "finally"
    /\ UNCHANGED << runsVars, conversionVars, graphVars, committed, library, nextId, op, target, toExh,
                    deps, idx, open, opened, pending, scope, nInv, nProd,
                    lastOutcome, output, error, failure, failedAt, runLog,
                    callCommitted, aborted, exhaustedAt >>

\* Variant of ExecutionExcept: the rollback also takes back what the earlier
\* nodes of the same operation committed.
ExecutionExceptUndoesCall ==
    /\ pc = "except"
    /\ pending' = {}
    /\ committed' = committed \ callCommitted
    /\ scope' = [ scope EXCEPT !.rollbacks = @ + 1 ]
    /\ pc' = "finally"
    /\ UNCHANGED << runsVars, conversionVars, graphVars, library, nextId, op, target, toExh, deps, idx,
                    open, opened, nInv, nProd, lastOutcome, output, error,
                    failure, failedAt, runLog, callCommitted, aborted,
                    exhaustedAt >>

\* Variant of ExecutionExcept: the except clause rolls back and swallows
\* the error instead of raising it again.
ExecutionExceptSwallows ==
    /\ pc = "except"
    /\ pending' = {}
    /\ scope' = [ scope EXCEPT !.rollbacks = @ + 1 ]
    /\ error' = NoError
    /\ pc' = "finally"
    /\ UNCHANGED << runsVars, conversionVars, graphVars, committed, library, nextId, op, target, toExh,
                    deps, idx, open, opened, nInv, nProd, lastOutcome, output,
                    failure, failedAt, runLog, callCommitted, aborted,
                    exhaustedAt >>

\* Variant of ExecutionExcept: the except clause commits what the failed
\* body had written instead of rolling it back.
ExecutionExceptFlushes ==
    /\ pc = "except"
    /\ committed' = committed \cup pending
    /\ pending' = {}
    /\ scope' = [ scope EXCEPT !.rollbacks = @ + 1 ]
    /\ pc' = "finally"
    /\ UNCHANGED << runsVars, conversionVars, graphVars, library, nextId, op, target, toExh, deps, idx,
                    open, opened, nInv, nProd, lastOutcome, output, error,
                    failure, failedAt, runLog, callCommitted, aborted,
                    exhaustedAt >>

\* except Exception as e: session.rollback(); raise e.  The clause is
\* entered for an Exception only.
ExecutionExcept ==
    /\ pc = "except"
    /\ error \notin BaseExceptions
    /\ pending' = {}
    /\ scope' = [ scope EXCEPT !.rollbacks = @ + 1 ]
    /\ pc' = "finally"
    /\ UNCHANGED << runsVars, conversionVars, graphVars, committed, library, nextId, op, target,
                    toExh, deps, idx, open, opened, nInv, nProd, lastOutcome,
                    output, error, failure, failedAt, runLog, callCommitted,
                    aborted,
                    exhaustedAt >>

\* Variant of ExecutionFinally: the operation returns from inside the first
\* with statement, so the loop never reaches the next node.
ExecutionFinallyStopsLoop ==
    /\ pc = "finally"
    /\ open' = open \ {opened}
    /\ scope' = [ scope EXCEPT !.closes = @ + 1 ]
    /\ pc' = IF error # NoError THEN "raised" ELSE "returned"
    /\ UNCHANGED << runsVars, conversionVars, graphVars, committed, library, nextId, op, target, toExh,
                    deps, idx, opened, pending, nInv, nProd, lastOutcome,
                    output, error, failure, failedAt, runLog, callCommitted,
                    aborted, exhaustedAt >>

\* finally: session.close(); then the error propagates to the caller of the
\* operation, or the loop goes on with the next node.  What the session
\* held without a commit or a rollback (after an error that is no
\* Exception) is never committed: the session is closed.
ExecutionFinally ==
    /\ pc = "finally"
    /\ open' = open \ {opened}
    /\ scope' = [ scope EXCEPT !.closes = @ + 1 ]
    /\ IF error # NoError
       THEN /\ pc' = "raised"
            /\ idx' = idx
       ELSE /\ pc' = "loop"
            /\ idx' = idx + 1
    /\ UNCHANGED << runsVars, conversionVars, graphVars, committed, library, nextId, op, target,
                    toExh, deps, opened, pending, nInv, nProd, lastOutcome,
                    output, error, failure, failedAt, runLog, callCommitted,
                    aborted,
                    exhaustedAt >>

\* Variant of Return: the end of the loop is looked for one position too
\* far, so the operation never leaves its loop.
ReturnPastTheEnd ==
    /\ pc = "loop"
    /\ idx > Len(deps) + 1
    /\ pc' = "returned"
    /\ output' = IF op = "run_graph" THEN 0 ELSE output
    /\ UNCHANGED << runsVars, conversionVars, graphVars, committed, library, nextId, op, target, toExh,
                    deps, idx, open, opened, pending, scope, nInv, nProd,
                    lastOutcome, error, failure, failedAt, runLog,
                    callCommitted, aborted, exhaustedAt >>

\* Variant of Return: produce returns the block that the call registered
\* last, whichever node produced it.
ReturnLatestBlockOfCall ==
    /\ pc = "loop"
    /\ idx > Len(deps)
    /\ pc' = "returned"
    /\ LET made == { r.id : r \in { r \in callCommitted : r.kind = "block" } }
       IN  output' = IF op = "run_graph" \/ made = {}
                     THEN 0
                     ELSE CHOOSE i \in made : \A j \in made : j <= i
    /\ UNCHANGED << runsVars, conversionVars, graphVars, committed, library, nextId, op, target,
                    toExh, deps, idx, open, opened, pending, scope, nInv,
                    nProd, lastOutcome, error, failure, failedAt, runLog,
                    callCommitted, aborted,
                    exhaustedAt >>

\* The loop is over: produce returns the output of the last em.run,
\* run_node that of its only one, run_graph nothing.
Return ==
    /\ pc = "loop"
    /\ idx > Len(deps)
    /\ pc' = "returned"
    /\ output' = IF op = "run_graph" THEN 0 ELSE output
    /\ UNCHANGED << runsVars, conversionVars, graphVars, committed, library, nextId, op, target,
                    toExh, deps, idx, open, opened, pending, scope, nInv,
                    nProd, lastOutcome, error, failure, failedAt, runLog,
                    callCommitted, aborted,
                    exhaustedAt >>

\* ------------------------------------------ Environment.session_scope --

\* get_generated_otype(key): looks the key up inside a session scope.
get_generated_otype(k) ==
    /\ Begin("get_generated_otype", k, FALSE, << >>)
    /\ pc' = "ss_enter"
    /\ UNCHANGED << runsVars, conversionVars >>

\* Variant of add_new_otype: the library is not looked into; the record is
\* added whatever the library holds.
add_new_otype_unchecked(k) ==
    /\ Begin("add_new_otype", k, FALSE, << >>)
    /\ pc' = "ss_enter"
    /\ UNCHANGED << runsVars, conversionVars >>

\* add_new_otype(otype): nothing to do for a key the library holds;
\* otherwise the record is added inside a session scope.
add_new_otype(k) ==
    /\ Begin("add_new_otype", k, FALSE, << >>)
    /\ pc' = IF k \in library THEN "returned" ELSE "ss_enter"
    /\ UNCHANGED << runsVars, conversionVars >>

\* `with self.session_scope() as sess:` is entered: session_scope up to
\* its yield, session = self.Session(**kwargs).  The new session holds
\* nothing to write and nothing to delete.
SessionScopeOpen ==
    /\ pc = "ss_enter"
    /\ opened' = opened + 1
    /\ open' = open \cup {opened + 1}
    /\ pending' = {}
    /\ deleting' = {}
    /\ pc' = "ss_body"
    /\ UNCHANGED << thisBound, runs, calls, deleteMemory, storages, envVars,
                    conversionVars, graphVars, committed, library, nextId, op, target,
                    toExh, deps, idx, scope, nInv, nProd,
                    lastOutcome, output, error, failure, failedAt, runLog,
                    callCommitted, aborted,
                    exhaustedAt >>

\* The body of add_new_otype's scope: sess.add(got).
AddOtypeBody ==
    /\ pc = "ss_body"
    /\ op = "add_new_otype"
    /\ pending' = pending \cup { OtypeRecord(target, opened) }
    /\ pc' = "ss_commit"
    /\ UNCHANGED << runsVars, conversionVars, graphVars, committed, library, nextId, op, target,
                    toExh, deps, idx, open, opened, scope, nInv, nProd,
                    lastOutcome, output, error, failure, failedAt, runLog,
                    callCommitted, aborted,
                    exhaustedAt >>

\* The body of get_generated_otype's scope: the query finds the record of
\* the key, or none; the function returns from inside the scope.
QueryOtypeBody ==
    /\ pc = "ss_body"
    /\ op = "get_generated_otype"
    /\ output' = IF \E r \in committed : r.kind = "otype" /\ r.id = target
                 THEN target ELSE 0
    /\ pc' = "ss_commit"
    /\ UNCHANGED << runsVars, conversionVars, graphVars, committed, library, nextId, op, target,
                    toExh, deps, idx, open, opened, pending, scope, nInv,
                    nProd, lastOutcome, error, failure, failedAt, runLog,
                    callCommitted, aborted,
                    exhaustedAt >>

\* The query of get_generated_otype raises (the store cannot be read, the
\* call is interrupted): an Exception is taken by the except clause of
\* session_scope, any other error passes it.
QueryOtypeFails ==
    /\ pc = "ss_body"
    /\ op = "get_generated_otype"
    /\ \E e \in { "StorageIOError" } \cup Interrupts :
        /\ error' = e
        /\ failure' = e
        /\ pc' = IF e \in BaseExceptions THEN "ss_finally" ELSE "ss_except"
    /\ scope' = [ scope EXCEPT !.bodyRaised = TRUE ]
    /\ aborted' = aborted \cup pending
    /\ UNCHANGED << runsVars, conversionVars, graphVars, committed, library, nextId, op, target,
                    toExh, deps, idx, open, opened, pending, nInv, nProd,
                    lastOutcome, output, failedAt, runLog, callCommitted,
                    exhaustedAt >>

\* session.commit() after the body of the scope returned.
SessionScopeCommit ==
    /\ pc = "ss_commit"
    /\ committed' = (committed \ deleting) \cup pending
    /\ callCommitted' = callCommitted \cup pending
    /\ pending' = {}
    /\ deleting' = {}
    /\ scope' = [ scope EXCEPT !.commits = @ + 1 ]
    /\ pc' = "ss_finally"
    /\ UNCHANGED << thisBound, runs, calls, deleteMemory, storages, envVars, conversionVars, graphVars, library, nextId, op, target, toExh,
                    deps, idx, open, opened, nInv, nProd, lastOutcome, output,
                    error, failure, failedAt, runLog, aborted,
                    exhaustedAt >>

\* session.commit() raises inside the scope: an Exception is taken by the
\* except clause, any other error passes it.
SessionScopeCommitFails ==
    /\ pc = "ss_commit"
    /\ scope' = [ scope EXCEPT !.commits = @ + 1, !.commitRaised = TRUE ]
    /\ \E e \in CommitErrors :
        /\ error' = e
        /\ failure' = e
        /\ pc' = IF e \in BaseExceptions THEN "ss_finally" ELSE "ss_except"
    /\ aborted' = aborted \cup pending
    /\ UNCHANGED << runsVars, conversionVars, graphVars, committed, library, nextId, op, target,
                    toExh, deps, idx, open, opened, pending, nInv, nProd,
                    lastOutcome, output, failedAt, runLog, callCommitted,
                    exhaustedAt >>

\* except Exception as e: session.rollback(); raise e.  The clause is
\* entered for an Exception only.
SessionScopeExcept ==
    /\ pc = "ss_except"
    /\ error \notin BaseExceptions
    /\ pending' = {}
    /\ deleting' = {}
    /\ scope' = [ scope EXCEPT !.rollbacks = @ + 1 ]
    /\ pc' = "ss_finally"
    /\ UNCHANGED << thisBound, runs, calls, deleteMemory, storages, envVars, conversionVars, graphVars, committed, library, nextId, op, target,
                    toExh, deps, idx, open, opened, nInv, nProd, lastOutcome,
                    output, error, failure, failedAt, runLog, callCommitted,
                    aborted,
                    exhaustedAt >>

\* finally: session.close(); the error propagates, or the operation goes on
\* after its with statement.
SessionScopeFinally ==
    /\ pc = "ss_finally"
    /\ open' = open \ {opened}
    /\ scope' = [ scope EXCEPT !.closes = @ + 1 ]
    /\ pc' = IF error # NoError THEN "raised"
             ELSE IF op = "add_new_otype" THEN "ss_after" ELSE "returned"
    /\ UNCHANGED << runsVars, conversionVars, graphVars, committed, library, nextId, op, target,
                    toExh, deps, idx, opened, pending, nInv, nProd,
                    lastOutcome, output, error, failure, failedAt, runLog,
                    callCommitted, aborted,
                    exhaustedAt >>

\* add_new_otype after its scope: self.library.add_otype(otype).
AddOtypeToLibrary ==
    /\ pc = "ss_after"
    /\ library' = library \cup {target}
    /\ pc' = "returned"
    /\ UNCHANGED << runsVars, conversionVars, graphVars, committed, nextId, op, target, toExh,
                    deps, idx, open, opened, pending, scope, nInv, nProd,
                    lastOutcome, output, error, failure, failedAt, runLog,
                    callCommitted, aborted,
                    exhaustedAt >>

\* The modules that are added to an environment, each known by the keys
\* of its otypes.
Modules == SUBSET Keys \ {{}}

\* env.add_module(module): the components of the module join the library;
\* nothing is written to the metadata store.
add_module(module) ==
    /\ pc = "idle"
    /\ op' = "add_module"
    /\ target' = module
    /\ library' = library \cup module
    /\ output' = 0
    /\ error' = NoError
    /\ failure' = NoError
    /\ pc' = "returned"
    /\ UNCHANGED << runsVars, conversionVars, graphVars, committed, nextId,
                    toExh, deps, idx, open, opened, pending, scope, nInv,
                    nProd, lastOutcome, failedAt, runLog, callCommitted,
                    aborted, exhaustedAt >>

\* ------------------------- Environment.validate_and_clean_data_blocks --

\* validate_and_clean_data_blocks(delete_memory, delete_intermediate=False):
\* the clean-up runs inside a session scope.
validate_and_clean_data_blocks(delete_memory) ==
    /\ Begin("validate_and_clean_data_blocks", 0, FALSE, << >>)
    /\ deleteMemory' = delete_memory
    /\ UNCHANGED << storages, envVars >>
    /\ pc' = "ss_enter"
    /\ UNCHANGED << thisBound, deleting, runs, calls, conversionVars >>

\* The StoredDataBlockMetadata records whose storage_url starts with
\* "memory:".
MemoryStoredDataBlocks(R) ==
    { r \in R : r.kind = "replica" /\ r.sf.storage = "memory" }

\* The body of the clean-up's scope: with delete_memory the records of the
\* replicas in memory are deleted in the session; the blocks left without a
\* replica are reported; delete_intermediate is False and the body ends.
CleanBody ==
    /\ pc = "ss_body"
    /\ op = "validate_and_clean_data_blocks"
    /\ deleting' = IF deleteMemory THEN MemoryStoredDataBlocks(committed) ELSE {}
    /\ pc' = "ss_commit"
    /\ UNCHANGED << thisBound, runs, calls, deleteMemory, storages, envVars, conversionVars,
                    graphVars, committed, library, nextId, op, target,
                    toExh, deps, idx, open, opened, pending, scope, nInv,
                    nProd, lastOutcome, output, error, failure, failedAt,
                    runLog, callCommitted, aborted, exhaustedAt >>

\* ------------------------------------------- Environment.add_storage --

\* The call env.add_storage(storage_like): the list of the environment
\* grows by the storage, which is returned, or TypeError is raised and the
\* list is as before. (The list of runtimes that the same call may extend is
\* not part of the state.)
add_storage(storage_like) ==
    /\ pc = "idle"
    /\ op' = "add_storage"
    /\ target' = storage_like
    /\ LET r == AddStorage(storages, storage_like)
       IN  /\ storages' = r.storages
           /\ result' = r.value
           /\ error' = r.raised
           /\ failure' = r.raised
           /\ pc' = IF r.raised = NoError THEN "returned" ELSE "raised"
    /\ UNCHANGED << thisBound, deleting, runs, calls, deleteMemory, envVars, graphVars,
                    committed, library, nextId, toExh,
                    deps, idx, open, opened, pending, scope, nInv, nProd,
                    lastOutcome, output, failedAt, runLog, callCommitted,
                    aborted, exhaustedAt, registry, replicas, cvSource,
                    cvTarget, plan, hop, hopsRun >>

\* The call env.get_execution_context(graph, session, target_storage,
\* **kwargs) and the context it returns, or the error it raises.
get_execution_context(target_storage, kwargs) ==
    /\ pc = "idle"
    /\ op' = "get_execution_context"
    /\ target' = target_storage
    /\ execution_kwargs' = kwargs
    /\ LET ec == ExecutionContext(storages, target_storage, kwargs)
       IN  /\ result' = ec.value
           /\ error' = ec.raised
           /\ failure' = ec.raised
           /\ pc' = IF ec.raised = NoError THEN "returned" ELSE "raised"
    /\ UNCHANGED << thisBound, deleting, runs, calls, deleteMemory, storages,
                    metadata_sessions, sess, graphVars, committed, library,
                    nextId, toExh,
                    deps, idx, open, opened, pending, scope, nInv, nProd,
                    lastOutcome, output, failedAt, runLog, callCommitted,
                    aborted, exhaustedAt, registry, replicas, cvSource,
                    cvTarget, plan, hop, hopsRun >>

\* ------------------------------------------ Environment: its sessions --

\* The sessions of the list ms.
SessionsOf(ms) == { ms[i] : i \in DOMAIN ms }

\* env.get_new_metadata_session(): a session is created, kept in
\* _metadata_sessions and returned; it stays open.
get_new_metadata_session ==
    /\ pc = "idle"
    /\ op' = "get_new_metadata_session"
    /\ opened' = opened + 1
    /\ open' = open \cup {opened + 1}
    /\ metadata_sessions' = Append(metadata_sessions, opened + 1)
    /\ output' = opened + 1
    /\ error' = NoError
    /\ failure' = NoError
    /\ pc' = "returned"
    /\ UNCHANGED << thisBound, deleting, runs, calls, deleteMemory, storages,
                    execution_kwargs, sess, conversionVars, graphVars,
                    committed, library, nextId, target, toExh, deps, idx,
                    pending, scope, nInv, nProd, lastOutcome, failedAt,
                    runLog, callCommitted, aborted, exhaustedAt >>

\* env.close_sessions(): every session of _metadata_sessions is closed and
\* the list is emptied.
close_sessions ==
    /\ pc = "idle"
    /\ op' = "close_sessions"
    /\ open' = open \ SessionsOf(metadata_sessions)
    /\ metadata_sessions' = << >>
    /\ output' = 0
    /\ error' = NoError
    /\ failure' = NoError
    /\ pc' = "returned"
    /\ UNCHANGED << thisBound, deleting, runs, calls, deleteMemory, storages,
                    execution_kwargs, sess, conversionVars, graphVars,
                    committed, library, nextId, target, toExh, deps, idx,
                    opened, pending, scope, nInv, nProd, lastOutcome,
                    failedAt, runLog, callCommitted, aborted, exhaustedAt >>

\* env.clean_up_db_sessions(): close_all_sessions() closes every session
\* there is, whoever opened it; _metadata_sessions is left as it is.
clean_up_db_sessions ==
    /\ pc = "idle"
    /\ op' = "clean_up_db_sessions"
    /\ open' = {}
    /\ output' = 0
    /\ error' = NoError
    /\ failure' = NoError
    /\ pc' = "returned"
    /\ UNCHANGED << runsVars, conversionVars, graphVars, committed, library,
                    nextId, target, toExh, deps, idx, opened, pending, scope,
                    nInv, nProd, lastOutcome, failedAt, runLog, callCommitted,
                    aborted, exhaustedAt >>

\* ------------------------------------------------- one call after another --

\* What the caller keeps of an operation that ended.
CallRecord ==
    [ op |-> op, target |-> target, output |-> output, ended |-> pc ]

\* The operation has ended, with a value or an error; its caller goes on
\* to the next call on the same environment.
NextCall ==
    /\ pc \in {"returned", "raised"}
    /\ Len(calls) + 1 < MaxCalls
    /\ calls' = Append(calls, CallRecord)
    /\ pc' = "idle"
    /\ UNCHANGED << thisBound, deleting, runs, deleteMemory, storages, envVars, conversionVars,
                    graphVars, committed, library, nextId, op, target,
                    toExh, deps, idx, open, opened, pending, scope, nInv,
                    nProd, lastOutcome, output, error, failure, failedAt,
                    runLog, callCommitted, aborted, exhaustedAt >>

\* -------------------------------------------------- conversion engine --

\* The (storage, format) pairs of local memory that MemoryToMemoryConverter
\* names: the columnar table, the row sequence and their two generators.
StorageFormats ==
    { StorageFormat("memory", f) :
        f \in {"DataFrame", "RecordsList", "RecordsListGenerator", "DataFrameGenerator"} }

\* A format is streaming-capable when it is a single-pass generator.
StreamingCapable(sf) == sf.format \in {"RecordsListGenerator", "DataFrameGenerator"}

\* The declared costs that the registered converters are drawn from.
Costs == {1, 3}

\* A converter: its supported inputs, its supported outputs, its cost.
Converter(ins, outs, c) == [ inputs |-> ins, outputs |-> outs, cost |-> c ]

\* The converters of reg that turn a replica at u into one at v.
ConvertersFor(reg, u, v) == { c \in reg : u \in c.inputs /\ v \in c.outputs }

\* The converter graph has an edge from u to v.
HasConverter(reg, u, v) == u # v /\ ConvertersFor(reg, u, v) # {}

\* The weight of the edge from u to v: the cost of its cheapest converter.
EdgeCost(reg, u, v) ==
    LET cs == { c.cost : c \in ConvertersFor(reg, u, v) }
    IN  CHOOSE c \in cs : \A d \in cs : c <= d

\* The search labels a node with the cost of the best path found to it and,
\* to break ties, the number of its hops and then the number of its hops
\* into a format that is not streaming-capable, each of which is penalized.
Label(c, h, pen) == [ cost |-> c, hops |-> h, penalty |-> pen ]

\* The label a is better than b: cheaper; or as cheap with fewer hops; or as
\* cheap with as many hops and less penalized.
LabelLess(a, b) ==
    \/ a.cost < b.cost
    \/ a.cost = b.cost /\ a.hops < b.hops
    \/ a.cost = b.cost /\ a.hops = b.hops /\ a.penalty < b.penalty

\* The penalty of an edge into v: an edge into a format that is not
\* streaming-capable is penalized relative to one into a streaming-capable
\* format.
Penalty(v) == IF StreamingCapable(v) THEN 0 ELSE 1

\* Variant of Extend: every edge weighs the same, whatever its converter
\* declares, so that the search minimises the number of hops.
ExtendByHopsOnly(reg, a, u, v) == Label(a.cost + 1, a.hops + 1, a.penalty + Penalty(v))

\* Variant of Extend: an edge into a format that is not streaming-capable is
\* not told from one into a streaming-capable format.
ExtendUnpenalized(reg, a, u, v) == Label(a.cost + EdgeCost(reg, u, v), a.hops + 1, 0)

\* The label of v when it is reached from u, labelled a, over their edge.
Extend(reg, a, u, v) ==
    Label(a.cost + EdgeCost(reg, u, v), a.hops + 1, a.penalty + Penalty(v))

RECURSIVE Dijkstra(_, _, _, _)
\* Least-cost search: settle the unsettled reached node with the least
\* label, relax the edges that leave it, until no reached node is left.
Dijkstra(reg, dist, reached, settled) ==
    LET frontier == reached \ settled
    IN  IF frontier = {}
        THEN [ dist |-> dist, reached |-> reached ]
        ELSE LET u == CHOOSE x \in frontier :
                          \A y \in frontier : ~LabelLess(dist[y], dist[x])
                 improved ==
                     { v \in StorageFormats \ (settled \cup {u}) :
                         /\ HasConverter(reg, u, v)
                         /\ \/ v \notin reached
                            \/ LabelLess(Extend(reg, dist[u], u, v), dist[v]) }
                 relaxed ==
                     [ v \in StorageFormats |->
                         IF v \in improved THEN Extend(reg, dist[u], u, v) ELSE dist[v] ]
             IN  Dijkstra(reg, relaxed, reached \cup improved, settled \cup {u})

\* The labels of the search from s.
SearchFrom(reg, s) == Dijkstra(reg, [ v \in StorageFormats |-> Label(0, 0, 0) ], {s}, {})

\* The sequences of two or more distinct (storage, format) pairs.
SimplePaths ==
    UNION { Orderings(S) : S \in { T \in SUBSET StorageFormats : Cardinality(T) >= 2 } }

\* The paths the search may return from s to t: those on which every node
\* got its final label from the node before it.  Which of them it returns
\* when several are left after the ties are broken is left to the order in
\* which the search meets the converters.
PlannedPaths(reg, s, t) ==
    LET found == SearchFrom(reg, s)
    IN  IF t \notin found.reached THEN {}
        ELSE { p \in SimplePaths :
                 /\ p[1] = s
                 /\ p[Len(p)] = t
                 /\ \A i \in 1..(Len(p) - 1) :
                        /\ HasConverter(reg, p[i], p[i + 1])
                        /\ p[i] \in found.reached
                        /\ found.dist[p[i + 1]] =
                               Extend(reg, found.dist[p[i]], p[i], p[i + 1]) }

\* A replica of the block under conversion: its (storage, format), its data
\* and the replica it was converted from (0 for a replica that was written
\* by a pipe or a storage).
Replica(id, sf, d, src) == [ id |-> id, sf |-> sf, data |-> d, from |-> src ]

\* The replica of R with identity id.
ReplicaById(R, id) == CHOOSE r \in R : r.id = id

\* Variant of FindReplica: the lookup finds nothing.
FindReplicaFindsNone(R, sf) == {}

\* The replicas of R at (storage, format) sf.
FindReplica(R, sf) == { r \in R : r.sf = sf }

\* A fresh replica identity for the block whose replicas are R.
NewReplicaId(R) ==
    1 + (CHOOSE m \in { r.id : r \in R } : \A r \in R : r.id <= m)

\* The failure of one converter hop: the backend cannot be read or written.
HopError == "StorageIOError"

\* What the call of a conversion function raises of its own, when it
\* raises: the exception of get_realized_otype, of the records object that
\* it reads (an AttributeError for an object without get_generator, a
\* TypeError for a chunk that is None, a ValueError of concat) or of the
\* generator that it iterates, which is of any class, Exception or one
\* below it or a KeyboardInterrupt, which is none.
FunctionErrors ==
    { "KeyError", "ValueError", "TypeError", "AttributeError", "RuntimeError",
      "Exception", "KeyboardInterrupt" }

\* try: lookup[...](...) except KeyError: raise NotImplementedError.  A
\* KeyError raised inside the try, by the subscript of the lookup or by the
\* call of the function, leaves _convert as NotImplementedError; any other
\* exception leaves it as it is.
ExceptKeyError(e) == IF e = "KeyError" THEN "NotImplementedError" ELSE e

\* What the hop from u to v may raise before anything is stored: the
\* failure of the read of the input; NotImplementedError when the lookup
\* has no function for the two formats; and what the call of the function
\* of the two formats raises (the ValueError of concat for a dataframe
\* generator that yields nothing among it), as the except clause lets it
\* out.
ConvertErrors(u, v) ==
    {HopError} \cup
    (IF << u.format, v.format >> \notin LookupKeys THEN { ExceptKeyError("KeyError") }
     ELSE { ExceptKeyError(e) : e \in FunctionErrors })

\* Variant of WithoutPath: resolve falls back on the source replica when no
\* path leads to the target.
WithoutPathReturnsSource(src) ==
    [ pc |-> "returned", error |-> NoError, result |-> src.id ]

\* Step 3: without a path resolve fails with NoConversionPathError and
\* returns no replica.
WithoutPath(src) ==
    [ pc |-> "raised", error |-> "NoConversionPathError", result |-> 0 ]

\* register(converter): the converter joins the graph.
register(conv) ==
    /\ pc = "idle"
    /\ Cardinality(registry) < MaxConverters
    /\ conv \notin registry
    /\ registry' = registry \cup {conv}
    /\ UNCHANGED << runsVars, graphVars, committed, library, nextId, pc, op, target,
                    toExh, deps, idx, open, opened, pending, scope, nInv,
                    nProd, lastOutcome, output, error, failure, failedAt,
                    runLog, callCommitted, aborted, exhaustedAt, replicas,
                    cvSource, cvTarget, plan, hop, hopsRun, result >>

\* resolve(sourceReplica, targetStorage, targetFormat) on a block whose
\* replicas are R: steps 1 to 3.  An existing replica at the target is
\* returned; else the path is searched; without a path the call fails.
resolve(R, src, t) ==
    /\ pc = "idle"
    /\ src \in R
    /\ op' = "resolve"
    /\ replicas' = R
    /\ cvSource' = src.id
    /\ cvTarget' = t
    /\ hopsRun' = << >>
    /\ LET paths == PlannedPaths(registry, src.sf, t)
       IN  IF FindReplica(R, t) # {}
           THEN /\ result' = (CHOOSE r \in FindReplica(R, t) : TRUE).id
                /\ plan' = << >>
                /\ hop' = 0
                /\ error' = NoError
                /\ pc' = "returned"
           ELSE IF paths = {}
           THEN /\ result' = WithoutPath(src).result
                /\ plan' = << >>
                /\ hop' = 0
                /\ error' = WithoutPath(src).error
                /\ pc' = WithoutPath(src).pc
           ELSE /\ \E p \in paths : plan' = p
                /\ result' = 0
                /\ hop' = 1
                /\ error' = NoError
                /\ pc' = "cv_hop"
    /\ failure' = error'
    /\ UNCHANGED << runsVars, graphVars, committed, library, nextId, target, toExh,
                    deps, idx, open, opened, pending, scope, nInv, nProd,
                    lastOutcome, output, failedAt, runLog, callCommitted,
                    aborted, exhaustedAt, registry >>

\* The replica that the next hop reads: the source, or the previous hop's.
HopInput ==
    IF hop = 1 THEN ReplicaById(replicas, cvSource)
    ELSE CHOOSE r \in replicas :
             /\ r.sf = plan[hop]
             /\ \A q \in replicas : q.id <= r.id

\* Step 4, one hop: the converter reads the input replica and, when the
\* lookup has a function for the two formats, stores its output as a new
\* replica; after the last hop resolve returns that one.
ConvertStores ==
    /\ pc = "cv_hop"
    /\ << plan[hop].format, plan[hop + 1].format >> \in LookupKeys
    /\ LET new == Replica(NewReplicaId(replicas), plan[hop + 1],
                          HopInput.data, HopInput.id)
       IN  /\ replicas' = replicas \cup {new}
           /\ result' = IF hop + 1 = Len(plan) THEN new.id ELSE 0
    /\ hopsRun' = Append(hopsRun, [ from |-> plan[hop], to |-> plan[hop + 1],
                                    cost |-> EdgeCost(registry, plan[hop], plan[hop + 1]),
                                    stored |-> TRUE, raised |-> NoError ])
    /\ hop' = hop + 1
    /\ pc' = IF hop + 1 = Len(plan) THEN "returned" ELSE "cv_hop"
    /\ UNCHANGED << runsVars, graphVars, committed, library, nextId, op, target, toExh,
                    deps, idx, open, opened, pending, scope, nInv, nProd,
                    lastOutcome, output, error, failure, failedAt, runLog,
                    callCommitted, aborted, exhaustedAt, registry, cvSource,
                    cvTarget, plan >>

\* Variant of ConvertRaises: the converter stores its output and then
\* raises, so that the failed hop leaves a replica behind.
ConvertRaisesAfterStoring ==
    /\ pc = "cv_hop"
    /\ \E e \in ConvertErrors(plan[hop], plan[hop + 1]) : error' = e
    /\ failure' = error'
    /\ replicas' = replicas \cup
           { Replica(NewReplicaId(replicas), plan[hop + 1], HopInput.data, HopInput.id) }
    /\ hopsRun' = Append(hopsRun, [ from |-> plan[hop], to |-> plan[hop + 1],
                                    cost |-> EdgeCost(registry, plan[hop], plan[hop + 1]),
                                    stored |-> FALSE, raised |-> error' ])
    /\ pc' = "raised"
    /\ UNCHANGED << runsVars, graphVars, committed, library, nextId, op, target, toExh,
                    deps, idx, open, opened, pending, scope, nInv, nProd,
                    lastOutcome, output, failedAt, runLog, callCommitted,
                    aborted, exhaustedAt, registry, cvSource, cvTarget, plan,
                    hop, result >>

\* Step 4, one hop fails: the converter raises before anything is stored,
\* and the failure leaves resolve.
ConvertRaises ==
    /\ pc = "cv_hop"
    /\ \E e \in ConvertErrors(plan[hop], plan[hop + 1]) : error' = e
    /\ failure' = error'
    /\ hopsRun' = Append(hopsRun, [ from |-> plan[hop], to |-> plan[hop + 1],
                                    cost |-> EdgeCost(registry, plan[hop], plan[hop + 1]),
                                    stored |-> FALSE, raised |-> error' ])
    /\ pc' = "raised"
    /\ UNCHANGED << runsVars, graphVars, committed, library, nextId, op, target, toExh,
                    deps, idx, open, opened, pending, scope, nInv, nProd,
                    lastOutcome, output, failedAt, runLog, callCommitted,
                    aborted, exhaustedAt, registry, replicas, cvSource,
                    cvTarget, plan, hop, result >>

\* The hop fails with the error e.
ConvertRaisesWith(e) == ConvertRaises /\ error' = e

\* ------------------------------------------- MemoryToMemoryConverter --

\* The records objects that a replica at (storage, format) sf may hold.
RecordsObjects(sf) ==
    CASE sf.format = "RecordsList" -> RecordsLists
      [] sf.format = "DataFrame" -> DataFrames
      [] OTHER -> {}

\* The ways to cut n rows into k chunks that follow each other: the position
\* of the last row of each chunk.
Cuts(n, k) ==
    { c \in [ 1..k -> 0..n ] : c[k] = n /\ \A i \in 1..(k - 1) : c[i] <= c[i + 1] }

\* The rows of chunk i when the cuts are c.
ChunkRange(c, i) == [ from |-> (IF i = 1 THEN 0 ELSE c[i - 1]) + 1, to |-> c[i] ]

\* The records list generators: up to MaxChunks chunks, each a records list,
\* an empty one included, of up to MaxRows rows in all; also the generator
\* that yields nothing.
RecordsListGenerators ==
    { << >> } \cup
    UNION { { [ i \in 1..k |-> SubSeq(rl, ChunkRange(c, i).from, ChunkRange(c, i).to) ] :
                  c \in Cuts(Len(rl), k) } : rl \in RecordsLists, k \in 1..MaxChunks }

\* The dataframe generators: up to MaxChunks chunks, each a dataframe, of up
\* to MaxRows rows in all; also the generator that yields nothing.
DataFrameGenerators ==
    { << >> } \cup
    UNION { { [ i \in 1..k |->
                  [ col \in Columns |-> SubSeq(df[col], ChunkRange(c, i).from, ChunkRange(c, i).to) ] ] :
                  c \in Cuts(NumRows(df), k) } : df \in DataFrames, k \in 1..MaxChunks }

\* The generator objects of a generator format.
GeneratorObjects(sf) ==
    CASE sf.format = "RecordsListGenerator" -> RecordsListGenerators
      [] sf.format = "DataFrameGenerator" -> DataFrameGenerators
      [] OTHER -> {}

\* A records object is stored in local memory as the first replica of a
\* block.
store_local_memory_data_records(sf, d) ==
    /\ pc = "idle"
    /\ replicas = {}
    /\ replicas' = { Replica(1, sf, d, 0) }
    /\ op' = "store"
    /\ UNCHANGED << runsVars, graphVars, committed, library, nextId, pc, target, toExh,
                    deps, idx, open, opened, pending, scope, nInv, nProd,
                    lastOutcome, output, error, failure, failedAt, runLog,
                    callCommitted, aborted, exhaustedAt, registry, cvSource,
                    cvTarget, plan, hop, hopsRun, result >>

\* Variant of convert: without a conversion function for the two formats the
\* records of the input are stored for the output as they are.
convert_copies_without_function(in, out, raises) ==
    /\ pc = "idle"
    /\ in \in replicas
    /\ Cardinality(replicas) <= MaxConversions
    /\ op' = "convert"
    /\ cvSource' = in.id
    /\ cvTarget' = out
    /\ LET output_records_object ==
               IF << in.sf.format, out.format >> \notin LookupKeys
               THEN Returned(in.data)
               ELSE IF raises # NoError THEN Raised(ExceptKeyError(raises))
               ELSE Lookup(in.sf.format, out.format, in.data)
       IN  IF output_records_object.raised = NoError
           THEN /\ replicas' = replicas \cup
                       { Replica(NewReplicaId(replicas), out,
                                 output_records_object.value, in.id) }
                /\ result' = NewReplicaId(replicas)
                /\ error' = NoError
                /\ pc' = "idle"
           ELSE /\ replicas' = replicas
                /\ result' = 0
                /\ error' = output_records_object.raised
                /\ pc' = "raised"
    /\ failure' = error'
    /\ UNCHANGED << runsVars, graphVars, committed, library, nextId, target, toExh,
                    deps, idx, open, opened, pending, scope, nInv, nProd,
                    lastOutcome, output, failedAt, runLog, callCommitted,
                    aborted, exhaustedAt, registry, plan, hop, hopsRun >>

\* MemoryToMemoryConverter._convert(input_sdb, output_sdb): the records of
\* the input are read, converted by the function that the lookup has for
\* the two formats and stored for the output; without such a function
\* NotImplementedError is raised and nothing is stored.  raises is what the
\* call of the function raises of its own (none when it raises nothing);
\* a function that raises stores nothing, and its KeyError leaves as
\* NotImplementedError.
convert(in, out, raises) ==
    /\ pc = "idle"
    /\ in \in replicas
    /\ Cardinality(replicas) <= MaxConversions
    /\ op' = "convert"
    /\ cvSource' = in.id
    /\ cvTarget' = out
    /\ IF << in.sf.format, out.format >> \in LookupKeys
       THEN LET output_records_object ==
                    IF raises # NoError THEN Raised(raises)
                    ELSE Lookup(in.sf.format, out.format, in.data)
            IN  IF output_records_object.raised = NoError
                THEN /\ replicas' = replicas \cup
                            { Replica(NewReplicaId(replicas), out,
                                      output_records_object.value, in.id) }
                     /\ result' = NewReplicaId(replicas)
                     /\ error' = NoError
                     /\ pc' = "idle"
                ELSE /\ replicas' = replicas
                     /\ result' = 0
                     /\ error' = ExceptKeyError(output_records_object.raised)
                     /\ pc' = "raised"
       ELSE /\ replicas' = replicas
            /\ result' = 0
            /\ error' = ExceptKeyError("KeyError")
            /\ pc' = "raised"
    /\ failure' = error'
    /\ UNCHANGED << runsVars, graphVars, committed, library, nextId, target, toExh,
                    deps, idx, open, opened, pending, scope, nInv, nProd,
                    lastOutcome, output, failedAt, runLog, callCommitted,
                    aborted, exhaustedAt, registry, plan, hop, hopsRun >>

\* ---------------------------------------------------------- pipe.py --

\* The fields of the dataclass Pipe; its generated __init__ takes these
\* keywords and no other.
PipeFields ==
    { "name", "module_name", "pipe_callable", "compatible_runtime_classes",
      "config_class", "state_class", "declared_inputs", "declared_output" }

\* The fields of Pipe without a default: __init__ requires them.
RequiredPipeFields ==
    { "name", "module_name", "pipe_callable", "compatible_runtime_classes" }

\* The defaults of the other fields of Pipe.
PipeDefaults ==
    [ config_class |-> None, state_class |-> None,
      declared_inputs |-> Nothing, declared_output |-> None ]

\* The keyword arguments of a call f(k1=v1, ..., **more): the keywords
\* written out, then those of more; a keyword that more repeats is a
\* TypeError (got multiple values for keyword argument).
Keywords(kw, more) ==
    IF DOMAIN kw \cap DOMAIN more # {} THEN Raised("TypeError")
    ELSE Returned([ k \in DOMAIN kw \cup DOMAIN more |->
                      IF k \in DOMAIN more THEN more[k] ELSE kw[k] ])

\* Pipe(**kw): the frozen dataclass is constructed from the keywords; a
\* keyword that is no field of Pipe is a TypeError, and so is a field
\* without a default that is not given.
NewPipe(kw) ==
    IF DOMAIN kw \subseteq PipeFields /\ RequiredPipeFields \subseteq DOMAIN kw
    THEN Returned([ k \in PipeFields |->
                      IF k \in DOMAIN kw THEN kw[k] ELSE PipeDefaults[k] ])
    ELSE Raised("TypeError")

\* The letters that str.lower changes, and what it changes them to.
UpperCase ==
    << "A", "B", "C", "D", "E", "F", "G", "H", "I", "J", "K", "L", "M",
       "N", "O", "P", "Q", "R", "S", "T", "U", "V", "W", "X", "Y", "Z" >>

LowerCase ==
    << "a", "b", "c", "d", "e", "f", "g", "h", "i", "j", "k", "l", "m",
       "n", "o", "p", "q", "r", "s", "t", "u", "v", "w", "x", "y", "z" >>

\* s.lower(), s a string written as the sequence of its characters.
lower(s) ==
    [ i \in DOMAIN s |->
        IF \E j \in DOMAIN UpperCase : UpperCase[j] = s[i]
        THEN LowerCase[CHOOSE j \in DOMAIN UpperCase : UpperCase[j] = s[i]]
        ELSE s[i] ]

\* sub in s, for strings written as sequences of characters.
In(sub, s) ==
    \E i \in 0..(Len(s) - Len(sub)) : SubSeq(s, i + 1, i + Len(sub)) = sub

\* get_runtime_class(runtime), runtime no string (Nothing) or a string
\* written as the sequence of its characters: the Python runtime unless
\* the name in lower case has ql, database or postgre in it.
get_runtime_class(runtime) ==
    IF runtime = Nothing THEN "PYTHON"
    ELSE IF \/ In(<< "q", "l" >>, lower(runtime[1]))
            \/ In(<< "d", "a", "t", "a", "b", "a", "s", "e" >>, lower(runtime[1]))
            \/ In(<< "p", "o", "s", "t", "g", "r", "e" >>, lower(runtime[1]))
         THEN "DATABASE"
    ELSE "PYTHON"

\* No callable: the pipe_callable of a pipe that is built from other pipes.
NoCallable == [ kind |-> "None", name |-> None ]

\* make_pipe_name(pipe): the name attribute of the callable.
make_pipe_name(fn) == fn.name

\* pipe_factory(pipe_callable, name=name, **kwargs), module, runtimes,
\* inputs and output left at their defaults: the name is that of the
\* callable unless one is given; the other keywords go on to Pipe.
pipe_factory(pipe_callable, name, kwargs) ==
    IF name = None /\ pipe_callable = NoCallable THEN Raised("RuntimeError")
    ELSE LET args == Keywords(
                 [ name |-> IF name = None THEN make_pipe_name(pipe_callable) ELSE name,
                   module_name |-> "_local_",
                   pipe_callable |-> pipe_callable,
                   compatible_runtime_classes |-> << get_runtime_class(Nothing) >>,
                   declared_inputs |-> Nothing,
                   declared_output |-> None ], kwargs)
         IN  IF args.raised # NoError THEN args ELSE NewPipe(args.value)

\* make_pipe(pipe_like, **kwargs): a Pipe as it is, a callable through
\* pipe_factory.
make_pipe(pipe_like, kwargs) ==
    IF pipe_like.kind = "Pipe" THEN Returned(pipe_like)
    ELSE pipe_factory(pipe_like, None, kwargs)

RECURSIVE sub_funcs(_, _, _)
\* The loop of pipe_chain over its list: a name string raises
\* NotImplementedError, a Pipe is taken as it is, a callable is made a Pipe,
\* anything else raises TypeError; the pipes are appended to done in the
\* order of the list.
sub_funcs(chain, kwargs, done) ==
    IF chain = << >> THEN Returned(done)
    ELSE LET fn == Head(chain)
         IN  IF fn.kind = "str" THEN Raised("NotImplementedError")
             ELSE IF fn.kind = "Pipe" THEN sub_funcs(Tail(chain), kwargs, Append(done, fn))
             ELSE IF fn.kind = "callable"
                  THEN LET p == make_pipe(fn, kwargs)
                       IN  IF p.raised # NoError THEN p
                           ELSE sub_funcs(Tail(chain), kwargs, Append(done, p.value))
             ELSE Raised("TypeError")

\* pipe_chain(name, pipe_chain, **kwargs): the pipes of the list, then
\* pipe_factory(None, name=name, sub_graph=sub_funcs, is_composite=True,
\* **kwargs).
PipeChain(name, chain, kwargs) ==
    LET subs == sub_funcs(chain, kwargs, << >>)
    IN  IF subs.raised # NoError THEN subs
        ELSE LET args == Keywords([ sub_graph |-> subs.value, is_composite |-> TRUE ],
                                  kwargs)
             IN  IF args.raised # NoError THEN args
                 ELSE pipe_factory(NoCallable, name, args.value)

\* What the lists given to pipe_chain are made of: name strings, Pipe
\* objects, plain callables and objects that are none of these.
ChainElements ==
    { [ kind |-> "str", name |-> "pipe_generic" ],
      [ kind |-> "Pipe", name |-> "pipe_t1_source" ],
      [ kind |-> "Pipe", name |-> "pipe_self" ],
      [ kind |-> "callable", name |-> "pipe_t1_to_t2" ],
      [ kind |-> "callable", name |-> "pipe_generic" ],
      [ kind |-> "other", name |-> "7" ] }

PipeChains == UNION { [ 1..n -> ChainElements ] : n \in 0..MaxChain }

\* The keyword arguments given to pipe_chain: none, a configuration class
\* for the pipes, or a keyword that pipe_factory passes to Pipe itself.
ChainKeywords ==
    { << >>, [ config_class |-> "Config" ], [ declared_output |-> "DataFrame[T]" ] }

\* The call pipe_chain(name, chain, **kwargs) and what it comes back with.
pipe_chain(name, chain, kwargs) ==
    /\ pc = "idle"
    /\ op' = "pipe_chain"
    /\ target' = [ name |-> name, pipe_chain |-> chain, kwargs |-> kwargs ]
    /\ LET r == PipeChain(name, chain, kwargs)
       IN  /\ error' = r.raised
           /\ failure' = r.raised
           /\ result' = r.value
           /\ pc' = IF r.raised = NoError THEN "returned" ELSE "raised"
    /\ UNCHANGED << runsVars, graphVars, committed, library, nextId, toExh,
                    deps, idx, open, opened, pending, scope, nInv, nProd,
                    lastOutcome, output, failedAt, runLog, callCommitted,
                    aborted, exhaustedAt, registry, replicas, cvSource,
                    cvTarget, plan, hop, hopsRun >>

\* The annotation of the execution-context parameter of a pipe callable.
PipeContext == "PipeContext"

\* The annotations of the data parameters of the pipe callables.
DataAnnotations == { "DataBlock[T]", "DataSet[TestType2]" }

\* The names that a declaration of inputs may use: a dictionary from any
\* names to annotations is taken; the name of the context parameter and
\* the names of the data parameters.
DeclaredNames == { "ctx" } \cup { SlotNames[i] : i \in 1..Len(SlotNames) }

\* A dictionary from names to annotations is the sequence of its items in
\* the order of their insertion, no name twice.  The loop over
\* declared_inputs.items() appends one input per item, in that order, with
\* the name and the annotation of the item.
Slots(items) ==
    [ i \in 1..Len(items) |-> [ name |-> items[i].name, annotation |-> items[i].annotation ] ]

\* The parameters of a python function that takes the data parameters of
\* the mapping f from names to annotations, in the order of SlotNames.
Parameters(f) ==
    LET named == SelectSeq(SlotNames, LAMBDA n : n \in DOMAIN f)
    IN  [ i \in 1..Len(named) |-> [ name |-> named[i], annotation |-> f[named[i]] ] ]

\* PipeInterface(inputs, output): requires_pipe_context is False unless set.
PipeInterface(ins, out) ==
    [ inputs |-> ins, output |-> out, requires_pipe_context |-> FALSE ]

\* PipeInterface.from_pipe_definition(callable): one input per parameter of
\* the signature that is annotated as data, the output from the return
\* annotation; a parameter annotated PipeContext is no input and sets
\* requires_pipe_context.
from_pipe_definition(callable) ==
    [ inputs |-> SelectSeq(callable.parameters, LAMBDA q : q.annotation # PipeContext),
      output |-> callable.returns,
      requires_pipe_context |->
          \E i \in 1..Len(callable.parameters) : callable.parameters[i].annotation = PipeContext ]

\* Pipe._get_pipe_interface: the interface the callable itself gives when it
\* has a get_interface, the one read off its signature otherwise.
get_pipe_interface(pipe) ==
    IF pipe.pipe_callable.get_interface # Nothing
    THEN pipe.pipe_callable.get_interface[1]
    ELSE from_pipe_definition(pipe.pipe_callable)

\* Pipe._get_declared_interface: the declared inputs and output, each only
\* when it is not empty.
get_declared_interface(pipe) ==
    PipeInterface(
        IF pipe.declared_inputs \notin {Nothing, Some(<< >>)}
        THEN Slots(pipe.declared_inputs[1]) ELSE << >>,
        IF pipe.declared_output \notin {None, ""} THEN pipe.declared_output ELSE None)

\* Variant of GetInterface: the declared annotations override the found ones
\* slot by slot, a declared input that the callable lacks is appended, and
\* the found interface is returned with them.
GetInterfaceMerged(pipe) ==
    LET found_dfi == get_pipe_interface(pipe)
        declared_dfi == get_declared_interface(pipe)
        found_names == { found_dfi.inputs[i].name : i \in 1..Len(found_dfi.inputs) }
        declared_for(name) ==
            { j \in 1..Len(declared_dfi.inputs) : declared_dfi.inputs[j].name = name }
        overridden ==
            [ i \in 1..Len(found_dfi.inputs) |->
                  IF declared_for(found_dfi.inputs[i].name) # {}
                  THEN declared_dfi.inputs[CHOOSE j \in declared_for(found_dfi.inputs[i].name) : TRUE]
                  ELSE found_dfi.inputs[i] ]
    IN  [ inputs |-> overridden \o SelectSeq(declared_dfi.inputs, LAMBDA q : q.name \notin found_names),
          output |-> IF declared_dfi.output # None THEN declared_dfi.output ELSE found_dfi.output,
          requires_pipe_context |-> found_dfi.requires_pipe_context ]

\* Variant of GetInterface: the declared interface is returned as it was
\* built.
GetInterfaceAsDeclared(pipe) ==
    LET found_dfi == get_pipe_interface(pipe)
        declared_dfi == get_declared_interface(pipe)
    IN  IF pipe.declared_output # None \/ pipe.declared_inputs # Nothing
        THEN declared_dfi
        ELSE found_dfi

\* Pipe.get_interface: the declared interface takes requires_pipe_context
\* from the found one and is returned when an input or an output is
\* declared; the found interface otherwise.
GetInterface(pipe) ==
    LET found_dfi == get_pipe_interface(pipe)
        declared_dfi == [ get_declared_interface(pipe) EXCEPT
                              !.requires_pipe_context = found_dfi.requires_pipe_context ]
    IN  IF pipe.declared_output # None \/ pipe.declared_inputs # Nothing
        THEN declared_dfi
        ELSE found_dfi

\* The mappings from some of the data parameter names to annotations.
SlotMaps ==
    UNION { [ S -> DataAnnotations ] : S \in SUBSET { SlotNames[i] : i \in 1..Len(SlotNames) } }

\* The python functions given as pipe callables: a context parameter or
\* none, then data parameters, and a return annotation or none.
PipeFunctions ==
    { [ kind |-> "callable", name |-> "pipe_t1_source", get_interface |-> Nothing,
        parameters |-> (IF ctx THEN << [ name |-> "ctx", annotation |-> PipeContext ] >> ELSE << >>)
                           \o Parameters(f),
        returns |-> r ] : ctx \in BOOLEAN, f \in SlotMaps, r \in {None, "DataFrame[T]"} }

\* The callables that give their interface themselves, as the wrapper of a
\* sql pipe does.
PipeWrappers ==
    { [ kind |-> "callable", name |-> "sql_pipe", parameters |-> << >>, returns |-> None,
        get_interface |-> Some([ inputs |-> << [ name |-> "input", annotation |-> "DataSet[TestType2]" ] >>,
                                 output |-> "DataFrame[T]",
                                 requires_pipe_context |-> ctx ]) ] : ctx \in BOOLEAN }

\* The data parameters of a callable, as a mapping from names to
\* annotations.
DataParameters(callable) ==
    LET ps == IF callable.get_interface # Nothing THEN callable.get_interface[1].inputs
              ELSE SelectSeq(callable.parameters, LAMBDA q : q.annotation # PipeContext)
    IN  { ps[i].name : i \in 1..Len(ps) }

\* The declarations of inputs: dictionaries from some of the names to
\* annotations of data, the names inserted in any order.
DeclaredInputs ==
    { items \in UNION { [ 1..n -> [ name : DeclaredNames, annotation : DataAnnotations ] ] :
                            n \in 0..Cardinality(DeclaredNames) } :
        \A i, j \in 1..Len(items) : items[i].name = items[j].name => i = j }

\* The pipes made of the callables: inputs and output declared or not; a
\* declaration is not held against the parameters of the callable.
Pipes ==
    { [ kind |-> "Pipe", name |-> c.name, module_name |-> "_local_", pipe_callable |-> c,
        compatible_runtime_classes |-> << "PYTHON" >>, config_class |-> None,
        state_class |-> None, declared_inputs |-> di, declared_output |-> do ] :
      c \in PipeFunctions \cup PipeWrappers,
      di \in {Nothing} \cup { Some(f) : f \in DeclaredInputs },
      do \in {None, "DataFrame[T]"} }

\* The call pipe.get_interface(env) and the interface it returns.
get_interface(pipe) ==
    /\ pc = "idle"
    /\ op' = "get_interface"
    /\ target' = pipe
    /\ result' = GetInterface(pipe)
    /\ pc' = "returned"
    /\ UNCHANGED << runsVars, graphVars, committed, library, nextId, toExh,
                    deps, idx, open, opened, pending, scope, nInv, nProd,
                    lastOutcome, output, failedAt, runLog, callCommitted,
                    aborted, exhaustedAt, registry, replicas, cvSource,
                    cvTarget, plan, hop, hopsRun, error, failure >>

\* ------------------------------------------------------ specification --

\* The operations a caller may start.
Call ==
    \/ \E n \in Nodes, te \in BOOLEAN : produce(n, te, NoKeywords)
    \/ \E n \in Nodes, te \in BOOLEAN : run_node(n, te, NoKeywords)
    \/ \E te \in BOOLEAN : run_graph(te, NoKeywords)
    \/ \E k \in Keys : get_generated_otype(k)
    \/ \E k \in Keys : add_new_otype(k)

\* The operations that run nodes, started with keyword arguments that
\* they hand on to Environment.execution.
CallWithKeywords ==
    \E kwargs \in ExecutionKwargs \ {NoKeywords} :
        \/ \E n \in Nodes, te \in BOOLEAN : produce(n, te, kwargs)
        \/ \E n \in Nodes, te \in BOOLEAN : run_node(n, te, kwargs)
        \/ \E te \in BOOLEAN : run_graph(te, kwargs)

\* A binding failure of the given kind.  Where the kind of a failure makes
\* no difference to what is checked (the order of the runs, the records in
\* the store), a specification takes one kind for each phase.
BindFailsWith(e) == BindFails /\ error' = e

\* An invocation that raises the given error.
InvokeFailedWith(e) == InvokeFailed /\ error' = e

\* A commit of an execution that raises the given error.
ExecutionCommitFailsWith(e) == ExecutionCommitFails /\ error' = e

\* A query of get_generated_otype that raises the given error.
QueryOtypeFailsWith(e) == QueryOtypeFails /\ error' = e

\* A commit of a session scope that raises the given error.
SessionScopeCommitFailsWith(e) == SessionScopeCommitFails /\ error' = e

\* Every step of the engine while the metadata store accepts each commit
\* and the execution context takes the keywords of each call.  What is
\* raised is a failure of section 7; no call is interrupted from outside.
NextReliableStore ==
    \/ Call
    \/ ExecutionEnter
    \/ BindFails
    \/ InvokeProduced
    \/ InvokeExhausted
    \/ \E e \in InvokeErrors : InvokeFailedWith(e)
    \/ ExecutionCommit
    \/ ExecutionExcept
    \/ ExecutionFinally
    \/ Return
    \/ SessionScopeOpen
    \/ AddOtypeBody
    \/ QueryOtypeBody
    \/ QueryOtypeFailsWith("StorageIOError")
    \/ SessionScopeCommit
    \/ SessionScopeExcept
    \/ SessionScopeFinally
    \/ AddOtypeToLibrary

\* Every step of the engine, a commit that the store refuses included,
\* while no call is interrupted: the design has no cancellation contract,
\* and what it says of a failure is said of the errors of section 7.
NextFailing ==
    \/ NextReliableStore
    \/ ExecutionCommitFailsWith(CommitError)
    \/ SessionScopeCommitFailsWith(CommitError)
    \/ CallWithKeywords
    \/ ExecutionEnterRaises

\* A call is interrupted from outside while em.run runs, while a query
\* runs or while a session commits.
Interrupted ==
    \E e \in Interrupts :
        \/ InvokeFailedWith(e)
        \/ ExecutionCommitFailsWith(e)
        \/ QueryOtypeFailsWith(e)
        \/ SessionScopeCommitFailsWith(e)

\* Every step of the engine.
Next ==
    \/ NextFailing
    \/ Interrupted

Spec == Init /\ [][Next]_vars

\* The graphs in which a node has no input but the node created after it:
\* pipelines and their parts, from the graph without an edge to the chain
\* of all the nodes.
PipelineGraphs == { up \in Graphs : \A n \in Nodes : up[n] \subseteq {n + 1} }

InitPipeline == InitOn(PipelineGraphs)

\* Every step of the engine, on a pipeline.
SpecPipeline == InitPipeline /\ [][NextFailing]_vars

SpecReliableStore == Init /\ [][NextReliableStore]_vars

\* The blocks that resolve is called on: a block with its source replica at
\* s alone, or with a second replica that already exists at the target t.
BlocksToResolve(s, t) ==
    LET source == Replica(1, s, "rows", 0)
    IN  { {source} } \cup
        (IF s = t THEN {} ELSE { {source, Replica(2, t, "rows", 0)} })

\* The conversion engine on its own: converters are registered, one for a
\* pair of formats, then the one replica of a block is resolved to a target
\* (storage, format); a hop that fails has no function for its formats, or
\* its function raises KeyError.
InitResolve ==
    /\ Init
    /\ upstream = [ n \in Nodes |-> {} ]

NextResolve ==
    \/ \E i, o \in StorageFormats, c \in Costs :
           /\ i # o
           /\ ConvertersFor(registry, i, o) = {}
           /\ register(Converter({i}, {o}, c))
    \/ \E s, t \in StorageFormats :
           \E R \in { B \in BlocksToResolve(s, t) : Cardinality(B) = 1 } :
               resolve(R, ReplicaById(R, 1), t)
    \/ ConvertStores
    \/ ConvertRaisesWith("NotImplementedError")

SpecResolve == InitResolve /\ [][NextResolve]_vars

\* The steps of resolve where the costs of the converters play no part, a
\* replica found at the target, no path to it, and the hops of a conversion,
\* each failing in every way it can: converters of one cost are registered,
\* one for a pair of formats, then a replica of a block, which may have a
\* replica at the target already, is resolved to a target (storage,
\* format).
NextHops ==
    \/ \E i, o \in StorageFormats :
           /\ i # o
           /\ ConvertersFor(registry, i, o) = {}
           /\ register(Converter({i}, {o}, 1))
    \/ \E s, t \in StorageFormats : \E R \in BlocksToResolve(s, t) :
           resolve(R, ReplicaById(R, 1), t)
    \/ ConvertStores
    \/ ConvertRaises

SpecHops == InitResolve /\ [][NextHops]_vars

\* Paths that tie: the converters are the ones that MemoryToMemoryConverter
\* names, from any format of local memory into a materialised one, and the
\* one that its note on streaming asks for, from the dataframe generator to
\* the records list generator; each is registered at either cost, one for a
\* pair of formats, then a replica of a block is resolved to a target
\* (storage, format).
NextTieBreak ==
    \/ \E i, o \in StorageFormats, c \in Costs :
           /\ i # o
           /\ StreamingCapable(o) =>
                  i.format = "DataFrameGenerator" /\ o.format = "RecordsListGenerator"
           /\ ConvertersFor(registry, i, o) = {}
           /\ register(Converter({i}, {o}, c))
    \/ \E s, t \in StorageFormats : \E R \in BlocksToResolve(s, t) :
           resolve(R, ReplicaById(R, 1), t)
    \/ ConvertStores
    \/ \E e \in { HopError, "NotImplementedError" } : ConvertRaisesWith(e)

SpecTieBreak == InitResolve /\ [][NextTieBreak]_vars

\* The memory-to-memory converter on its own: a records object is stored
\* and its replicas are converted, one conversion after the other.
NextMemoryToMemory ==
    \/ \E sf \in StorageFormats : \E d \in RecordsObjects(sf) :
           store_local_memory_data_records(sf, d)
    \/ \E in \in replicas, out \in StorageFormats,
          raises \in { NoError } \cup FunctionErrors : convert(in, out, raises)

SpecMemoryToMemory == InitResolve /\ [][NextMemoryToMemory]_vars

\* The graphs of the repeated calls: the first node takes its input from
\* the second or has none, and with an input it may refer to itself; the
\* other nodes are sources.
RunGraphs ==
    { up \in [ Nodes -> SUBSET Nodes ] :
        /\ up[1] \in { {}, {2}, {1, 2} }
        /\ \A n \in Nodes \ {1} : up[n] = {} }

InitRuns == InitOn(RunGraphs)

\* The nodes that the callers ask for: the first node and its source.
RunNodes == {1, 2}

\* One call after the other on one environment: nodes are produced, with
\* a failure of binding or of the invocation, and the data blocks are
\* cleaned up.
NextRuns ==
    \/ \E n \in RunNodes, te \in BOOLEAN : produce(n, te, NoKeywords)
    \/ \E n \in RunNodes, te \in BOOLEAN : run_node(n, te, NoKeywords)
    \/ \E dm \in BOOLEAN : validate_and_clean_data_blocks(dm)
    \/ ExecutionEnter
    \/ BindFailsWith("InterfaceBindingError")
    \/ InvokeProduced
    \/ InvokeExhausted
    \/ InvokeFailedWith("StorageIOError")
    \/ ExecutionCommit
    \/ ExecutionExcept
    \/ ExecutionFinally
    \/ Return
    \/ SessionScopeOpen
    \/ CleanBody
    \/ SessionScopeCommit
    \/ SessionScopeFinally
    \/ NextCall

SpecRuns == InitRuns /\ [][NextRuns]_vars

\* The graphs whose first node takes its inputs from the next two, the
\* second from the third or from none.
BindingGraphs ==
    { up \in [ Nodes -> SUBSET Nodes ] :
        /\ up[1] \subseteq {2, 3}
        /\ up[2] \subseteq {3}
        /\ \A n \in Nodes \ {1, 2} : up[n] = {} }

\* The pipes of those nodes: the first has two slots, as pipe_dataset_input
\* has, each required or optional, the second bound to the type variable of
\* the first or to a concrete schema; the second is a source or has one
\* required slot, as pipe_generic has; the others are sources.
BindingPipes ==
    { [ n \in Nodes |-> Some([ inputs |-> IF n = 1 THEN i1 ELSE IF n = 2 THEN i2 ELSE << >>,
                               output |-> "T" ]) ] :
        i1 \in { << InputSlot("input", r1, "T"), InputSlot("other_ds_t2", r2, s2) >> :
                   r1, r2 \in BOOLEAN, s2 \in {"T", "TestType2"} },
        i2 \in { << >>, << InputSlot("input", TRUE, "T") >> } }

\* Every upstream of a node is wired to a slot of its pipe.
InitBinding ==
    /\ InitWith(Nodes, BindingGraphs, BindingPipes)
    /\ \A n \in Nodes : \A u \in upstream[n] :
           \E k \in 1..Len(pipes[n][1].inputs) : SlotUpstream(n, k) = u

\* produce on the first node, the interfaces of the pipes resolved before
\* each invocation.
NextBinding ==
    \/ \E te \in BOOLEAN : produce(1, te, NoKeywords)
    \/ ExecutionEnter
    \/ ResolveRaises
    \/ ResolvedProduced
    \/ ResolvedExhausted
    \/ ResolvedFailed
    \/ ExecutionCommit
    \/ ExecutionExcept
    \/ ExecutionFinally
    \/ Return

SpecBinding == InitBinding /\ [][NextBinding]_vars

\* The pipes of the nodes with the schema of their output declared; their
\* slots are optional and bound to a concrete schema, so that their
\* interfaces always resolve.
SchemaPipes ==
    { [ n \in Nodes |->
          Some([ inputs |-> [ k \in 1..(IF n = 1 THEN 2 ELSE IF n = 2 THEN 1 ELSE 0) |->
                                InputSlot(SlotNames[k], FALSE, "TestType4") ],
                 output |-> o[n] ]) ] :
        o \in [ Nodes -> {"TestType1", "TestType4"} ] }

InitSchemas == InitWith(Nodes, BindingGraphs, SchemaPipes)

\* produce on the first node, the realized schema of every output recorded
\* against the nominal one.
NextSchemas ==
    \/ \E te \in BOOLEAN : produce(1, te, NoKeywords)
    \/ ExecutionEnter
    \/ ProducedRecorded
    \/ RecordRaises
    \/ InvokeExhausted
    \/ ExecutionCommit
    \/ ExecutionExcept
    \/ ExecutionFinally
    \/ Return

SpecSchemas == InitSchemas /\ [][NextSchemas]_vars

\* Inside the session scope of produce_pipe_output_for_static_input a graph
\* is built node by node from nothing, the nodes numbered in the order of
\* their creation, and one of its nodes is produced, one invocation per
\* node; then the scope is left.
InitGraph == InitWith({}, { [ n \in Nodes |-> {} ] }, { [ n \in Nodes |-> Nothing ] })

NextGraph ==
    \/ \E target_storage \in StaticInputTargets : StaticInputScopeOpen(target_storage)
    \/ \E key \in Nodes, ups \in SUBSET Nodes, self_reference \in BOOLEAN :
           /\ key = Cardinality(nodes) + 1
           /\ StaticInputCreateNode(key, ups, self_reference)
    \/ \E n \in nodes : StaticInputProduce(n)
    \/ ExecutionEnter
    \/ InvokeProduced
    \/ InvokeExhausted
    \/ ExecutionCommit
    \/ ExecutionFinally
    \/ Return
    \/ \E bodyRaises \in {NoError, error} \cup BodyErrors,
          commitRaises \in {NoError} \cup CommitErrors :
           StaticInputScopeExit(bodyRaises, commitRaises)

SpecGraph == InitGraph /\ [][NextGraph]_vars

\* Graphs of static extract nodes: no node has an input.
InitExtract == InitOn({ [ n \in Nodes |-> {} ] })

\* One call after the other on the nodes of the static extract pipes.
NextExtract ==
    \/ \E n \in RunNodes, te \in BOOLEAN : produce(n, te, NoKeywords)
    \/ ExecutionEnter
    \/ ExtractProduced
    \/ ExtractReturnsNothing
    \/ ExtractFailed
    \/ ExecutionCommit
    \/ ExecutionExcept
    \/ ExecutionFinally
    \/ Return
    \/ NextCall

SpecExtract == InitExtract /\ [][NextExtract]_vars

\* The storages of an environment: storages are added and execution
\* contexts are asked for, with a target storage or without.
NextStorages ==
    \/ \E storage_like \in StorageLikes : add_storage(storage_like)
    \/ \E target_storage \in {Nothing} \cup { Some(Storage(u)) : u \in StorageUrls } :
           \E kwargs \in ExecutionKwargs : get_execution_context(target_storage, kwargs)
    \/ NextCall

SpecStorages == InitExtract /\ [][NextStorages]_vars

\* The sessions of an environment: one call after the other hands out a
\* session, closes the sessions handed out, closes all sessions or runs the
\* first node, with keywords that the execution context takes or not.
NextSessions ==
    \/ get_new_metadata_session
    \/ close_sessions
    \/ clean_up_db_sessions
    \/ \E te \in BOOLEAN, kwargs \in ExecutionKwargs : run_node(1, te, kwargs)
    \/ ExecutionEnter
    \/ ExecutionEnterRaises
    \/ InvokeProduced
    \/ InvokeExhausted
    \/ InvokeFailed
    \/ ExecutionCommit
    \/ ExecutionExcept
    \/ ExecutionFinally
    \/ Return
    \/ NextCall

SpecSessions == InitExtract /\ [][NextSessions]_vars

\* The generated otypes of an environment: one call after the other adds an
\* otype or looks one up, and the store may refuse a commit or a query.
NextOtypes ==
    \/ \E module \in Modules : add_module(module)
    \/ \E k \in Keys : add_new_otype(k)
    \/ \E k \in Keys : get_generated_otype(k)
    \/ SessionScopeOpen
    \/ AddOtypeBody
    \/ QueryOtypeBody
    \/ QueryOtypeFails
    \/ SessionScopeCommit
    \/ SessionScopeCommitFails
    \/ SessionScopeExcept
    \/ SessionScopeFinally
    \/ AddOtypeToLibrary
    \/ NextCall

SpecOtypes == InitExtract /\ [][NextOtypes]_vars

\* The memory converter on generators: a generator is stored in local
\* memory, then replicas are converted.  The generators yield their chunks
\* and raise nothing of their own.
NextGenerators ==
    \/ \E sf \in StorageFormats : \E d \in GeneratorObjects(sf) :
           store_local_memory_data_records(sf, d)
    \/ \E in \in replicas, out \in StorageFormats : convert(in, out, NoError)

SpecGenerators == InitResolve /\ [][NextGenerators]_vars

\* The functions of pipe.py that build pipes, each called on its own.
NextPipes ==
    \/ \E name \in {"pipe_chain_t1_to_t2"}, chain \in PipeChains, kwargs \in ChainKeywords :
           pipe_chain(name, chain, kwargs)
    \/ \E pipe \in Pipes : get_interface(pipe)

SpecPipes == InitResolve /\ [][NextPipes]_vars

\* The steps of a running produce, run_node or run_graph call, with a
\* failure of binding, of the invocation or of the commit.
ExecutionStep ==
    \/ ExecutionEnter
    \/ BindFailsWith("InterfaceBindingError")
    \/ InvokeProduced
    \/ InvokeExhausted
    \/ InvokeFailedWith("StorageIOError")
    \/ ExecutionCommit
    \/ ExecutionCommitFailsWith(CommitError)
    \/ ExecutionExcept
    \/ ExecutionFinally
    \/ Return

\* produce(graph, node, to_exhaustion=True) on any node, and its steps.
NextProduceToExhaustion ==
    \/ \E n \in Nodes : produce(n, TRUE, NoKeywords)
    \/ ExecutionStep

\* A call that has started keeps running: the engine is one thread that
\* takes its next step whenever it has one, and every pipe invocation and
\* every commit comes back with an outcome.  Each pipe returns Produced at
\* most MaxProduced times in one node execution: it then signals Exhausted
\* or fails.
SpecProduceToExhaustion ==
    Init /\ [][NextProduceToExhaustion]_vars /\ WF_vars(ExecutionStep)

\* produce on any node, to exhaustion or not, and its steps.
NextProduce ==
    \/ \E n \in Nodes, te \in BOOLEAN : produce(n, te, NoKeywords)
    \/ ExecutionStep

SpecProduce == Init /\ [][NextProduce]_vars

\* run_graph, to exhaustion or not, and its steps.
NextRunGraph ==
    \/ \E te \in BOOLEAN : run_graph(te, NoKeywords)
    \/ ExecutionStep

SpecRunGraph == Init /\ [][NextRunGraph]_vars

\* ------------------------------------------------------------- claims --

\* The operations that run nodes, each in an execution scope.
ExecutionOps == {"produce", "run_node", "run_graph"}

\* The current session has been entered and has not yet been closed.
InExecutionScope == pc \in {"run", "commit", "except", "finally"}

\* An execution scope has been entered and left.
ExecutionScopeExited ==
    /\ op \in ExecutionOps
    /\ pc \in {"loop", "returned", "raised"}
    /\ Len(runLog) >= 1

\* Environment.execution was left by an error of the lines before its try
\* statement: the node that the session was opened for was not run.
ExecutionLeftBeforeYield ==
    /\ op \in ExecutionOps
    /\ pc = "raised"
    /\ Len(runLog) < failedAt

\* The open sessions that Environment.execution opened: those that the
\* environment did not hand out.
ExecutionSessions == open \ SessionsOf(metadata_sessions)

\* A scope of session_scope has been entered and left.
SessionScopeExited ==
    /\ op \in {"add_new_otype", "get_generated_otype"}
    /\ pc \in {"ss_after", "returned", "raised"}
    /\ opened >= 1

\* The block records among the records R that were written in session s.
BlocksOf(R, s) == { r \in R : r.kind = "block" /\ r.session = s }

\* C1: in one call produce(n), every node is run after all of its transitive
\* upstream dependencies, n is run after its whole upstream closure, nothing
\* is run after n, and a call that returns has run n.
C1_ProduceRunsUpstreamFirst ==
    op = "produce" =>
        /\ \A i \in 1..Len(runLog) :
               \A u \in UpstreamClosure(upstream, runLog[i].node) \ {runLog[i].node} :
                   \E j \in 1..(i - 1) : runLog[j].node = u
        /\ \A i \in 1..Len(runLog) : runLog[i].node = target => i = Len(runLog)
        /\ \A i, j \in 1..Len(runLog) : runLog[i].node = runLog[j].node => i = j
        /\ pc = "returned" =>
               /\ Len(runLog) >= 1
               /\ runLog[Len(runLog)].node = target
               /\ { runLog[i].node : i \in 1..Len(runLog) } = UpstreamClosure(upstream, target)

\* C1 witness: produce returned after running a node, then a node that
\* depends on it, then the requested node that depends on that one.
C1_Witness ==
    /\ op = "produce"
    /\ pc = "returned"
    /\ Len(runLog) = 3
    /\ runLog[1].node \in upstream[runLog[2].node]
    /\ runLog[2].node \in upstream[target]
    /\ runLog[1].node \notin upstream[target]

\* C2: in produce, run_node and run_graph each node execution has a session
\* of its own, opened for it, and it is closed before the next one is
\* opened: never are two sessions open, and none is open between two nodes.
C2_OneExecutionScopeAtATime ==
    op \in ExecutionOps =>
        /\ Cardinality(ExecutionSessions) <= 1
        /\ InExecutionScope => ExecutionSessions = { runLog[Len(runLog)].session }
        /\ ~InExecutionScope => ExecutionSessions = {}
        /\ \A i, j \in 1..Len(runLog) : runLog[i].session = runLog[j].session => i = j

\* C3: when a scope of execution or session_scope has been left, commit was
\* called iff the body did not raise, rollback was called iff the body or
\* the commit raised, the session was closed exactly once and is not open;
\* an execution that is left before its body is reached, because the
\* execution context could not be built, counts as a scope that was left.
C3_ScopeDiscipline ==
    (ExecutionScopeExited \/ ExecutionLeftBeforeYield \/ SessionScopeExited) =>
        /\ scope.commits = (IF scope.bodyRaised THEN 0 ELSE 1)
        /\ scope.rollbacks = (IF scope.bodyRaised \/ scope.commitRaised THEN 1 ELSE 0)
        /\ scope.closes = 1
        /\ opened \notin open
        /\ open = {}

\* C4: after a node of a produce call failed, the records that the earlier
\* nodes of the call committed are in the store exactly as committed.
C4_FailureKeepsEarlierCommits ==
    (op = "produce" /\ failure # NoError) =>
        /\ callCommitted \subseteq committed
        /\ \A i \in 1..(failedAt - 1) :
               BlocksOf(committed, runLog[i].session) = BlocksOf(callCommitted, runLog[i].session)

\* C4 witness: the third node of a produce call failed, rolled back two
\* pending blocks, and the blocks of the first two nodes are committed.
C4_Witness ==
    /\ op = "produce"
    /\ pc = "raised"
    /\ failedAt = 3
    /\ BlocksOf(aborted, runLog[3].session) # {}
    /\ BlocksOf(committed, runLog[1].session) # {}
    /\ BlocksOf(committed, runLog[2].session) # {}

\* C5: once the execution of a node raised during produce, its scope is
\* rolled back, no later node is run, and the call ends by raising the same
\* error to the caller, never by returning.
C5_FailurePropagates ==
    (op = "produce" /\ (scope.bodyRaised \/ scope.commitRaised)) =>
        /\ failure # NoError
        /\ pc \in {"except", "finally", "raised"}
        /\ error = failure
        /\ Len(runLog) = failedAt
        /\ idx = failedAt
        /\ pc \in {"finally", "raised"} => (scope.rollbacks = 1 /\ pending = {})

\* C5 witness: produce raised the binding error of its first node; the two
\* later nodes were not run.
C5_Witness ==
    /\ op = "produce"
    /\ pc = "raised"
    /\ error = "InterfaceBindingError"
    /\ failedAt = 1
    /\ Len(deps) = 3
    /\ Len(runLog) = 1
    /\ scope.rollbacks = 1

\* C6: what is written inside a scope is in the committed store only after a
\* commit of that scope: pending records are not in the store, and the
\* records of a scope that raised never are, the blocks of the earlier
\* invocations of its loop included.
C6_NoPartialWrites ==
    /\ committed \cap pending = {}
    /\ committed \cap aborted = {}

\* C6 witness: a loop failed on its third invocation; the two blocks of the
\* first two invocations were rolled back with it.
C6_Witness ==
    /\ pc = "raised"
    /\ lastOutcome = "Failed"
    /\ nInv = 3
    /\ Cardinality(BlocksOf(aborted, opened)) = 2
    /\ BlocksOf(committed, opened) = {}

\* The latest node execution has left the loop of em.run.
NodeExecutionOver ==
    /\ Len(runLog) >= 1
    /\ pc \in {"commit", "except", "finally", "loop", "returned", "raised"}

\* C7: in produce(..., to_exhaustion=True), a node whose pipe signalled
\* Exhausted on its Nth invocation, N >= 1, has exactly N-1 committed Blocks
\* from that call once its scope is committed.
C7_ExhaustionCount ==
    ( /\ op = "produce"
      /\ toExh
      /\ lastOutcome = "Exhausted"
      /\ pc \in {"finally", "loop", "returned", "raised"} ) =>
        /\ nInv >= 1
        /\ Cardinality(BlocksOf(committed, opened)) = nInv - 1

\* C7 witness: the requested node's repeatable pipe signalled Exhausted on
\* its third invocation and produce returned with two Blocks of it committed.
C7_Witness ==
    /\ op = "produce"
    /\ toExh
    /\ pc = "returned"
    /\ lastOutcome = "Exhausted"
    /\ repeatable[target] = "repeatable"
    /\ nInv = 3
    /\ Cardinality(BlocksOf(committed, opened)) = 2

\* C8 as stated: each invocation of the exhaustion loop has had a commit or
\* an abort of its own before the next invocation begins.
C8_EachInvocationCommitsOrAborts ==
    (op \in ExecutionOps /\ pc = "run" /\ nInv >= 1) =>
        /\ scope.commits + scope.rollbacks >= nInv
        /\ pending = {}

\* C8 amended: the invocations of one node execution follow one another
\* inside the node's single scope: while the loop runs, every earlier
\* invocation has returned Produced, its records are pending in that scope
\* and the session has seen neither commit nor rollback; the scope is
\* committed or rolled back after the last invocation only.
C8_InvocationsShareTheNodeScope ==
    op \in ExecutionOps =>
        /\ pc = "run" =>
               /\ scope.commits = 0
               /\ scope.rollbacks = 0
               /\ scope.closes = 0
               /\ open = {opened}
               /\ nProd = nInv
               /\ Cardinality(BlocksOf(pending, opened)) = nInv
               /\ BlocksOf(committed, opened) = {}
        /\ ExecutionScopeExited =>
               /\ scope.commits + scope.rollbacks >= 1
               /\ scope.commits <= 1
               /\ scope.rollbacks <= 1

\* C8 witness: two invocations of a loop have returned, their blocks are
\* pending and uncommitted, and the third invocation is about to begin.
C8_Witness ==
    /\ op = "produce"
    /\ pc = "run"
    /\ nInv = 2
    /\ Cardinality(BlocksOf(pending, opened)) = 2
    /\ scope.commits = 0

\* C9: when a pipe signals Exhausted during produce, no error comes of it,
\* the scope of its node is committed and not rolled back, and the call goes
\* on to the following node of the execution order.
C9_ExhaustedEndsTheLoopNormally ==
    op = "produce" =>
        \A i \in exhaustedAt :
            /\ failedAt # i
            /\ i = idx => (pc \in {"commit", "finally"} /\ error = NoError)
            /\ (i = idx /\ pc = "finally") =>
                   (scope.commits = 1 /\ scope.rollbacks = 0 /\ pending = {})
            /\ i # idx => BlocksOf(callCommitted, runLog[i].session) = BlocksOf(committed, runLog[i].session)
            /\ (pc \in {"returned", "raised"} /\ i < Len(deps)) => Len(runLog) > i

\* C9 witness: the first node of a produce call produced a Block and then
\* signalled Exhausted; its Block is committed, the two following nodes
\* were run and produce returned.
C9_Witness ==
    /\ op = "produce"
    /\ pc = "returned"
    /\ 1 \in exhaustedAt
    /\ Len(runLog) = 3
    /\ BlocksOf(committed, runLog[1].session) # {}

\* C10 as stated: with to_exhaustion unset, or a single-shot pipe, every
\* node execution invokes the pipe exactly once and registers at most one
\* Block.
C10_InvokedExactlyOnce ==
    ( /\ op \in ExecutionOps
      /\ NodeExecutionOver
      /\ (~toExh \/ repeatable[RunningNode] = "single-shot") ) =>
        /\ nInv = 1
        /\ nProd <= 1

\* C10 amended: a pipe is invoked again after Produced only if to_exhaustion
\* is set and the pipe is repeatable; with to_exhaustion unset, or a
\* single-shot pipe, a node execution invokes the pipe at most once, exactly
\* once unless binding its inputs failed before the invocation, and it
\* registers at most one Block.
C10_InvokedAgainOnlyToExhaustion ==
    (op \in ExecutionOps /\ Len(runLog) >= 1) =>
        /\ nInv >= 2 => (toExh /\ repeatable[RunningNode] = "repeatable")
        /\ (~toExh \/ repeatable[RunningNode] = "single-shot") =>
               /\ nInv <= 1
               /\ nProd <= 1
               /\ Cardinality(BlocksOf(pending \cup committed, opened)) <= 1
               /\ (NodeExecutionOver /\ lastOutcome # "BindFailed") => nInv = 1

\* C10 witness: a produce call with to_exhaustion unset returned after one
\* invocation of the requested node's pipe, which registered one Block; and
\* the same for a single-shot pipe run to exhaustion is reached as well.
C10_Witness ==
    /\ op = "produce"
    /\ pc = "returned"
    /\ ~toExh
    /\ nInv = 1
    /\ Cardinality(BlocksOf(committed, opened)) = 1
    /\ Len(runLog) = 2

\* The operation has ended: it returned to its caller or raised.
OperationEnded == pc \in {"returned", "raised"}

\* C11: a call produce(..., to_exhaustion=True) whose pipes each signal
\* Exhausted or fail after finitely many Produced outcomes terminates: no
\* node execution invokes its pipe more than MaxProduced + 1 times, and the
\* call, once started, returns or raises.
C11_ProduceTerminates ==
    /\ []((op = "produce" /\ toExh) => nInv <= MaxProduced + 1)
    /\ (op = "produce" /\ toExh) ~> OperationEnded

\* C11 witness: produce(..., to_exhaustion=True) returned after the loops of
\* three nodes each ended with Exhausted, with repeated invocations among
\* them.
C11_Witness ==
    /\ op = "produce"
    /\ toExh
    /\ pc = "returned"
    /\ exhaustedAt = {1, 2, 3}
    /\ Cardinality(BlocksOf(callCommitted, runLog[1].session)) = 2
    /\ nInv = MaxProduced + 1

\* The formats of the conversion examples: lazy row sequence, row sequence,
\* columnar table, lazy columnar sequence.
LazyRow == StorageFormat("memory", "RecordsListGenerator")

Row == StorageFormat("memory", "RecordsList")

Column == StorageFormat("memory", "DataFrame")

LazyColumn == StorageFormat("memory", "DataFrameGenerator")

\* Every path of the converter graph from s to t that visits no node twice.
ConverterPaths(reg, s, t) ==
    { p \in SimplePaths :
        /\ p[1] = s
        /\ p[Len(p)] = t
        /\ \A i \in 1..(Len(p) - 1) : HasConverter(reg, p[i], p[i + 1]) }

RECURSIVE PathCost(_, _)
\* The total declared cost of the path p.
PathCost(reg, p) ==
    IF Len(p) <= 1 THEN 0
    ELSE EdgeCost(reg, p[1], p[2]) + PathCost(reg, Tail(p))

RECURSIVE HopsCost(_)
\* The total declared cost of the converter hops h.
HopsCost(h) == IF h = << >> THEN 0 ELSE Head(h).cost + HopsCost(Tail(h))

\* The (storage, format) of the source replica of the running resolve.
SourceFormat == ReplicaById(replicas, cvSource).sf

\* The replicas that the block had when resolve was called.
ReplicasBefore == { r \in replicas : r.from = 0 }

\* Those of them that are at the requested (storage, format).
ExistingAtTarget == { r \in ReplicasBefore : r.sf = cvTarget }

\* C12: whenever a path of converters leads from the source's (storage,
\* format) to the target and no replica is at the target yet, resolve does
\* not fail for want of a path; the path it takes leads from the source to
\* the target over registered converters, its total declared cost is the
\* least among all such paths, and the hops it runs are those of that path,
\* in order, so that a resolve that returns has run hops of that total cost.
C12_ResolveTakesLeastCostPath ==
    (op = "resolve" /\ ExistingAtTarget = {}) =>
        LET paths == ConverterPaths(registry, SourceFormat, cvTarget)
        IN  paths # {} =>
               /\ error # "NoConversionPathError"
               /\ plan \in paths
               /\ \A q \in paths : PathCost(registry, plan) <= PathCost(registry, q)
               /\ \A i \in 1..Len(hopsRun) :
                      hopsRun[i].from = plan[i] /\ hopsRun[i].to = plan[i + 1]
               /\ pc = "returned" =>
                      /\ Len(hopsRun) = Len(plan) - 1
                      /\ \A q \in paths : HopsCost(hopsRun) <= PathCost(registry, q)

\* C12 witness: with converters lazy row -> row (1), row -> column (1) and
\* lazy row -> column (3), resolve from lazy row to column returned after
\* the two hops through row, of total cost 2, not the direct one.
C12_Witness ==
    /\ op = "resolve"
    /\ pc = "returned"
    /\ registry = { Converter({LazyRow}, {Row}, 1), Converter({Row}, {Column}, 1),
                    Converter({LazyRow}, {Column}, 3) }
    /\ plan = << LazyRow, Row, Column >>
    /\ Len(hopsRun) = 2
    /\ HopsCost(hopsRun) = 2

\* The number of hops of the path p into a format that is not
\* streaming-capable.
MaterializingHops(p) == Cardinality({ i \in 2..Len(p) : ~StreamingCapable(p[i]) })

\* The path p keeps streaming formats: no hop before its last one leads
\* from or into a format that is not streaming-capable.
KeepsStreaming(p) == \A i \in 1..(Len(p) - 1) : StreamingCapable(p[i])

C14_NoPathFails ==
    op = "resolve" =>
        /\ ( /\ ExistingAtTarget = {}
             /\ ConverterPaths(registry, SourceFormat, cvTarget) = {} ) =>
               /\ pc = "raised"
               /\ error = "NoConversionPathError"
               /\ result = 0
               /\ hopsRun = << >>
               /\ plan = << >>
               /\ replicas = ReplicasBefore
        /\ error = "NoConversionPathError" =>
               /\ ExistingAtTarget = {}
               /\ ConverterPaths(registry, SourceFormat, cvTarget) = {}
               /\ cvSource \in { r.id : r \in ReplicasBefore }

\* C14 witness: resolve raised NoConversionPathError although converters
\* lead out of the source's format and others lead into the target.
C14_Witness ==
    /\ op = "resolve"
    /\ pc = "raised"
    /\ error = "NoConversionPathError"
    /\ \E c \in registry : SourceFormat \in c.inputs
    /\ \E c \in registry : cvTarget \in c.outputs
    /\ replicas = ReplicasBefore

\* C15: when the block has a replica at the requested (storage, format),
\* resolve returns that replica, runs no converter and plans none, and the
\* block's replicas are exactly those it had, each as it was.
C15_ExistingReplicaReturned ==
    (op = "resolve" /\ ExistingAtTarget # {}) =>
        /\ pc = "returned"
        /\ error = NoError
        /\ result \in { r.id : r \in ExistingAtTarget }
        /\ hopsRun = << >>
        /\ plan = << >>
        /\ replicas \in BlocksToResolve(SourceFormat, cvTarget)

\* C15 witness: resolve returned the replica that the block already had at
\* the target, not the source replica, and ran no converter although a
\* path of converters leads from the source's format to the target.
C15_Witness ==
    /\ op = "resolve"
    /\ pc = "returned"
    /\ result # cvSource
    /\ result \in { r.id : r \in ExistingAtTarget }
    /\ ConverterPaths(registry, SourceFormat, cvTarget) # {}
    /\ hopsRun = << >>

\* The replicas that the hops of the running resolve have written.
ReplicasConverted == replicas \ ReplicasBefore

\* C16: once a hop of a conversion failed, resolve has failed with that
\* error and returns no replica; the failed hop is the last one that was
\* started; and the block has a replica of each hop before it and none of
\* the failed hop or of a later hop of the path.
C16_FailedHopAbortsResolve ==
    (op = "resolve" /\ \E i \in 1..Len(hopsRun) : ~hopsRun[i].stored) =>
        /\ pc = "raised"
        /\ error = hopsRun[Len(hopsRun)].raised
        /\ error \in ConvertErrors(plan[Len(hopsRun)], plan[Len(hopsRun) + 1])
        /\ result = 0
        /\ \A i \in 1..(Len(hopsRun) - 1) : hopsRun[i].stored
        /\ Len(hopsRun) <= Len(plan) - 1
        /\ { r.sf : r \in ReplicasConverted } = { plan[k] : k \in 2..Len(hopsRun) }
        /\ Cardinality(ReplicasConverted) = Len(hopsRun) - 1
        /\ \A k \in (Len(hopsRun) + 1)..Len(plan) :
               \A r \in replicas : r.sf # plan[k]

\* C16 witness: on a path of three hops the first hop stored its replica,
\* the second failed; the third was not run and resolve raised.
C16_Witness ==
    /\ op = "resolve"
    /\ pc = "raised"
    /\ Len(plan) = 4
    /\ Len(hopsRun) = 2
    /\ hopsRun[1].stored
    /\ ~hopsRun[2].stored
    /\ Cardinality(ReplicasConverted) = 1

\* The replica records among the records R.
ReplicaRecords(R) == { r \in R : r.kind = "replica" }

\* The step commits the session of a clean-up.
CleanUpCommits == op = "validate_and_clean_data_blocks" /\ pc = "ss_commit"

\* C17: replicas are append-only.  Whatever step produce, run_node or a
\* conversion takes, every committed replica stays committed with its
\* (storage, format) and its data; a conversion of a bound block writes one
\* replica of that block, at a (storage, format) where it had none, holding
\* the converted data of an input replica that is still there; a committed
\* replica goes away only when validate_and_clean_data_blocks commits.
C17_ReplicasAppendOnly ==
    [][ /\ ~CleanUpCommits =>
               ReplicaRecords(committed) \subseteq ReplicaRecords(committed')
        /\ \A r \in ReplicaRecords(pending') \ pending :
               (\E b \in committed : b.kind = "block" /\ b.id = r.id) =>
                   /\ \A q \in ReplicasOf(committed, r.id) : q.sf # r.sf
                   /\ \E q \in ReplicasOf(committed, r.id) :
                          /\ q \in committed'
                          /\ r.data = Lookup(q.sf.format, r.sf.format, q.data).value ]_vars

\* C17 witness: a later call has returned; a block that an earlier call
\* committed with its records list has since got a dataframe replica, and
\* the clean-up has not run.
C17_Witness ==
    /\ pc = "returned"
    /\ Len(calls) = 1
    /\ calls[1].op # "validate_and_clean_data_blocks"
    /\ op # "validate_and_clean_data_blocks"
    /\ \E r, q \in ReplicaRecords(committed) :
           /\ r.id = q.id
           /\ r.sf.format = "RecordsList"
           /\ q.sf.format = "DataFrame"
           /\ r.session < runLog[1].session
           /\ q.session >= runLog[1].session

\* The runs of node n that committed, oldest first, as positions in runs.
RunsOf(n) == { i \in 1..Len(runs) : runs[i].node = n }

\* The run that committed block id.
RunOfBlock(id) == runs[CHOOSE i \in 1..Len(runs) : id \in runs[i].blocks]

\* The replica that was written with block id, in the session of the block.
OwnReplica(R, id) ==
    CHOOSE r \in ReplicasOf(R, id) :
        \E b \in R : b.kind = "block" /\ b.id = id /\ b.session = r.session

\* The call before this one.
PreviousCall == calls[Len(calls)]

\* Two produce calls in a row on the same node, a node without a
\* self-reference, have both returned a block, and the inputs bound in the
\* two runs of the node held the same data.
ProducedTwice ==
    /\ pc = "returned"
    /\ op = "produce"
    /\ output # 0
    /\ calls # << >>
    /\ PreviousCall.op = "produce"
    /\ PreviousCall.target = target
    /\ PreviousCall.ended = "returned"
    /\ PreviousCall.output # 0
    /\ ~HasSelfReference(upstream, target)
    /\ Frames(committed, RunOfBlock(PreviousCall.output).input) =
           Frames(committed, RunOfBlock(output).input)

\* C19: produce called twice on a node without a self-reference, the
\* upstream data being the same, returns two blocks of different identity
\* that both exist and hold equal data; the second call does not return
\* the block of the first.
C19_NoDeduplication ==
    ProducedTwice =>
        /\ output # PreviousCall.output
        /\ \E b1, b2 \in committed :
               /\ b1.kind = "block" /\ b1.id = PreviousCall.output
               /\ b2.kind = "block" /\ b2.id = output
               /\ b1.node = target /\ b2.node = target
               /\ b1.session # b2.session
        /\ OwnReplica(committed, output).sf =
               OwnReplica(committed, PreviousCall.output).sf
        /\ OwnReplica(committed, output).data =
               OwnReplica(committed, PreviousCall.output).data
        /\ OwnReplica(committed, output) # OwnReplica(committed, PreviousCall.output)

\* C19 witness: the first node, whose input is the second, was produced
\* twice and each call produced the input anew.
C19_Witness ==
    /\ ProducedTwice
    /\ target = 1
    /\ upstream[1] = {2}
    /\ RunOfBlock(output).input # {}
    /\ RunOfBlock(output).input # RunOfBlock(PreviousCall.output).input
    /\ NumRows(OwnReplica(committed, output).data) > 0

\* The running node has bound its slots and its pipe came back.
BoundAndInvoked ==
    /\ pc \in {"run", "commit"}
    /\ lastOutcome \in {"Produced", "Exhausted"}

\* The blocks of the latest earlier run of node n that committed any.
PreviousRunBlocks(n) ==
    LET producing == { i \in RunsOf(n) : runs[i].blocks # {} }
    IN  IF producing = {} THEN {}
        ELSE runs[CHOOSE i \in producing : \A j \in producing : j <= i].blocks

\* C20: a node with a self-reference slot that runs again has the slot bound
\* to exactly the blocks of its previous run, the latest one that committed
\* output; these blocks are still there, unmerged, and what the node produces
\* is what its pipe makes of the binding: the rows of this followed by
\* those of the input.
C20_SelfReferenceBinding ==
    (BoundAndInvoked /\ HasSelfReference(upstream, RunningNode) /\ RunsOf(RunningNode) # {}) =>
        /\ thisBound = PreviousRunBlocks(RunningNode)
        /\ \A id \in thisBound :
               /\ \E b \in committed : b.kind = "block" /\ b.id = id /\ b.node = RunningNode
               /\ OwnReplica(committed, id) \in committed
        /\ lastOutcome = "Produced" =>
               \A c \in Columns :
                   OwnReplica(pending, output).data[c] =
                       Concat(Frames(committed, thisBound))[c] \o
                       Concat(Frames(committed,
                                     InputBinding(committed, upstream, RunningNode)))[c]

\* C20 witness: the accumulating node runs for the second time, bound to
\* the block of its first run, and produces the rows of that block and of
\* its new input.
C20_Witness ==
    /\ BoundAndInvoked
    /\ lastOutcome = "Produced"
    /\ HasSelfReference(upstream, RunningNode)
    /\ Cardinality(thisBound) = 1
    /\ PreviousRunBlocks(RunningNode) # {}
    /\ NumRows(OwnReplica(pending, output).data) = 2

\* C21: on the first run of a node with a self-reference slot, when no prior
\* output of the node exists, the slot is omitted, and what the accumulator
\* produces is its input records: the same rows in the same order.
C21_FirstRunOmitsThis ==
    (/\ BoundAndInvoked
     /\ HasSelfReference(upstream, RunningNode)
     /\ PreviousRunBlocks(RunningNode) = {}) =>
        /\ thisBound = {}
        /\ lastOutcome = "Produced" =>
               /\ OwnReplica(pending, output).sf.format = "DataFrame"
               /\ dataframe_to_records_list(OwnReplica(pending, output).data) =
                      Extended([ i \in 1..Len(InOrder(InputBinding(committed, upstream, RunningNode))) |->
                                   LET id == InOrder(InputBinding(committed, upstream, RunningNode))[i]
                                   IN  dataframe_to_records_list(as_dataframe(committed \cup pending, id)) ])

\* C21 witness: the accumulating node runs for the first time on an input
\* block of one row and produces that row.
C21_Witness ==
    /\ BoundAndInvoked
    /\ lastOutcome = "Produced"
    /\ HasSelfReference(upstream, RunningNode)
    /\ RunsOf(RunningNode) = {}
    /\ thisBound = {}
    /\ InputBinding(committed, upstream, RunningNode) # {}
    /\ NumRows(OwnReplica(pending, output).data) = 1

\* The positions of the list given to pipe_chain that hold neither a Pipe
\* nor a callable.
Rejected == { i \in 1..Len(target.pipe_chain) : target.pipe_chain[i].kind \in {"str", "other"} }

\* C26: pipe_chain given Pipe objects or callables returns a composite pipe
\* whose internal sub-list is the given pipes in the given order; a list
\* with a name string is rejected with NotImplementedError, one with any
\* other non-callable with TypeError (the first such element decides).
C26_PipeChainKeepsOrder ==
    (op = "pipe_chain" /\ pc \in {"returned", "raised"}) =>
        IF Rejected = {}
        THEN /\ pc = "returned"
             /\ result.is_composite
             /\ Len(result.sub_graph) = Len(target.pipe_chain)
             /\ \A i \in 1..Len(target.pipe_chain) :
                    result.sub_graph[i].name = target.pipe_chain[i].name
        ELSE LET first == CHOOSE i \in Rejected : \A j \in Rejected : i <= j
             IN  /\ pc = "raised"
                 /\ error = IF target.pipe_chain[first].kind = "str"
                            THEN "NotImplementedError" ELSE "TypeError"

\* C28 as stated: the execution-context argument is never a data slot: no
\* input of the interface that get_interface returns is the context
\* parameter, a pipe whose only parameter is the context has no input, and
\* the interface says that the pipe requires the context exactly when its
\* callable does, the declared interface as well as the found one.
C28_ContextIsNoDataSlot ==
    (op = "get_interface" /\ pc = "returned") =>
        LET callable == target.pipe_callable
            ps == callable.parameters
            context == { i \in 1..Len(ps) : ps[i].annotation = PipeContext }
        IN  /\ \A i \in 1..Len(result.inputs) :
                   /\ result.inputs[i].annotation # PipeContext
                   /\ \A j \in context : result.inputs[i].name # ps[j].name
            /\ callable.get_interface = Nothing =>
                   /\ result.requires_pipe_context = (context # {})
                   /\ (context = 1..Len(ps)) => result.inputs = << >>
            /\ callable.get_interface # Nothing =>
                   result.requires_pipe_context = callable.get_interface[1].requires_pipe_context

\* C28 amended: the interface found from the callable never has the
\* context parameter as an input, and has no input when the context is the
\* only parameter: so for every pipe that declares neither inputs nor
\* output.  The interface that get_interface returns says that the pipe
\* requires the context exactly when its callable does, the declared
\* interface as well as the found one.  A declared interface has the
\* declared inputs as its inputs, whatever the parameters of the callable:
\* a pipe whose only parameter is the context has the inputs that it
\* declares.
C28_ContextIsNoSlotOfFoundInterface ==
    (op = "get_interface" /\ pc = "returned") =>
        LET callable == target.pipe_callable
            ps == callable.parameters
            context == { i \in 1..Len(ps) : ps[i].annotation = PipeContext }
            found == from_pipe_definition(callable)
            declares == target.declared_inputs # Nothing \/ target.declared_output # None
            declared == IF target.declared_inputs = Nothing THEN << >>
                        ELSE target.declared_inputs[1]
        IN  /\ \A i \in 1..Len(found.inputs) :
                   /\ found.inputs[i].annotation # PipeContext
                   /\ \A j \in context : found.inputs[i].name # ps[j].name
            /\ (context = 1..Len(ps)) => found.inputs = << >>
            /\ (~declares /\ callable.get_interface = Nothing) => result.inputs = found.inputs
            /\ callable.get_interface = Nothing =>
                   result.requires_pipe_context = (context # {})
            /\ callable.get_interface # Nothing =>
                   result.requires_pipe_context = callable.get_interface[1].requires_pipe_context
            /\ declares =>
                   { result.inputs[i].name : i \in 1..Len(result.inputs) } =
                       { declared[i].name : i \in 1..Len(declared) }

\* A pipe that declares an input and whose callable takes the context
\* alone: the declared interface is returned, with the declared input, and
\* it requires the context.
C28_Witness ==
    /\ op = "get_interface"
    /\ pc = "returned"
    /\ target.declared_inputs \notin {Nothing, Some(<< >>)}
    /\ target.pipe_callable.get_interface = Nothing
    /\ Len(target.pipe_callable.parameters) = 1
    /\ target.pipe_callable.parameters[1].annotation = PipeContext
    /\ result.requires_pipe_context
    /\ result.inputs # << >>

\* C29: a static extract pipe emits once per node: an invocation that
\* returns the data leaves extracted set in the state of the node, no node
\* ever has more than one Block, whatever the number of produce calls, and
\* after a produce call that returned, to exhaustion or not, the node has
\* exactly one.
C29_ExtractEmitsOnce ==
    /\ \A n \in Nodes : Cardinality(BlocksOfNode(committed \cup pending, n)) <= 1
    /\ (pc \in {"run", "commit"} /\ lastOutcome = "Produced") =>
           NodeState(pending, RunningNode).extracted
    /\ (op = "produce" /\ pc = "returned") =>
           Cardinality(BlocksOfNode(committed, target)) = 1

\* A second produce call to exhaustion on an extract node whose first call
\* yielded a Block: the pipe was invoked and returned nothing.
C29_Witness ==
    /\ calls # << >>
    /\ calls[1].ended = "returned"
    /\ calls[1].output # 0
    /\ op = "produce"
    /\ toExh
    /\ target = calls[1].target
    /\ pc = "returned"
    /\ lastOutcome = "Exhausted"
    /\ nInv = 1

\* C30: when reading the file fails in extract_csv, extracted is not set in
\* the state of the node, neither in the failing session nor afterwards, and
\* the next run of the node invokes the pipe with extracted unset, so that
\* it attempts the extraction again.
C30_FailedReadLeavesStateUnset ==
    /\ (lastOutcome = "Failed" /\ pc \in {"except", "finally", "raised"}) =>
           /\ ExtractPipe(RunningNode) = "extract_csv"
           /\ ~NodeState(committed \cup pending \cup aborted, RunningNode).extracted
    /\ (/\ calls # << >>
        /\ calls[Len(calls)].ended = "raised"
        /\ pc = "run"
        /\ nInv = 0
        /\ RunningNode = calls[Len(calls)].target) =>
           ~NodeState(committed \cup pending, RunningNode).extracted

\* After a call in which the read failed, the node is produced again and
\* this time the extraction yields its Block.
C30_Witness ==
    /\ calls # << >>
    /\ calls[1].ended = "raised"
    /\ op = "produce"
    /\ target = calls[1].target
    /\ ExtractPipe(target) = "extract_csv"
    /\ pc = "returned"
    /\ Cardinality(BlocksOfNode(committed, target)) = 1

\* The input slots of the pipe of the running node.
RunningSlots == pipes[RunningNode][1].inputs

\* The realized schemas of the blocks that the k-th slot of the running node
\* is bound to.
SlotSchemas(k) ==
    IF SlotUpstream(RunningNode, k) \in upstream[RunningNode]
    THEN { realized_schema(as_dataframe(committed, id)) :
             id \in LatestOutput(committed, SlotUpstream(RunningNode, k)) }
    ELSE {}

\* Two slots of the running node share a type variable and are bound to
\* blocks whose realized schemas differ.
UnequalSchemas ==
    \E j, k \in 1..Len(RunningSlots) :
        /\ j # k
        /\ RunningSlots[j].schema_like \in TypeVariables
        /\ RunningSlots[j].schema_like = RunningSlots[k].schema_like
        /\ \E s1 \in SlotSchemas(j), s2 \in SlotSchemas(k) : s1 # s2

\* The slots of the running node that no upstream is bound to.
UnboundSlots ==
    { k \in 1..Len(RunningSlots) : SlotUpstream(RunningNode, k) \notin upstream[RunningNode] }

\* The first step of the execution of the running node is over.
BindingOver ==
    /\ pc \in {"run", "commit", "except", "finally"}
    /\ lastOutcome # "none"

\* em.run raised InterfaceBindingError and the pipe was not invoked in this
\* node execution.
BindingRaised ==
    /\ lastOutcome = "BindFailed"
    /\ error = "InterfaceBindingError"
    /\ nInv = 0
    /\ pc \in {"except", "finally"}

\* C22: when two slots of a pipe share a type variable and the upstream
\* blocks bound to them do not have equal realized schemas, the resolution
\* of the interface raises InterfaceBindingError and the pipe is not invoked
\* in that node execution.
C22_UnificationFailure ==
    (BindingOver /\ UnequalSchemas) => BindingRaised

\* Both slots are required and bound, to blocks of different schemas, and
\* the binding raised.
C22_Witness ==
    /\ BindingOver
    /\ UnequalSchemas
    /\ \A k \in 1..Len(RunningSlots) : RunningSlots[k].required
    /\ UnboundSlots = {}
    /\ BindingRaised

\* C23: when a required slot of the pipe has no bound upstream, the
\* resolution of the interface raises InterfaceBindingError before the pipe
\* is invoked; a slot that is optional and unbound does not make it raise.
C23_RequiredSlotUnbound ==
    BindingOver =>
        /\ (\E k \in UnboundSlots : RunningSlots[k].required) => BindingRaised
        /\ (/\ UnboundSlots # {}
            /\ \A k \in UnboundSlots : ~RunningSlots[k].required
            /\ ~UnequalSchemas) => lastOutcome # "BindFailed"

\* The first slot is bound, the second is required and is not: the binding
\* raised.
C23_Witness ==
    /\ BindingOver
    /\ UnboundSlots = {2}
    /\ RunningSlots[2].required
    /\ BindingRaised

\* The nominal schema of the blocks of node n.
NominalSchema(n) == SchemaFields(pipes[n][1].output)

\* C24: recording a realized schema that is not compatible with the nominal
\* schema of the block fails with SchemaMismatchError and records nothing;
\* every produced block has a realized schema that is compatible with its
\* nominal schema.
C24_RealizedCompatibleWithNominal ==
    /\ \A b \in committed \cup pending :
           b.kind = "block" =>
               /\ ReplicasOf(committed \cup pending, b.id) # {}
               /\ Compatible(realized_schema(as_dataframe(committed \cup pending, b.id)),
                             NominalSchema(b.node))
    /\ (pc = "except" /\ lastOutcome = "Failed") =>
           /\ error = "SchemaMismatchError"
           /\ ~Compatible(realized_schema(ProducedFrame), NominalSchema(RunningNode))
           /\ Cardinality(BlocksOfNode(pending, RunningNode)) = nProd
           /\ \A r \in pending : r.id # nextId
    /\ (pc \in {"run", "commit"} /\ lastOutcome = "Produced" /\ nProd = 1) =>
           Compatible(realized_schema(as_dataframe(pending, output)), NominalSchema(RunningNode))

\* A source whose records fill a field that its nominal schema does not
\* have: recording the realized schema raised.
C24_Witness ==
    /\ pc = "except"
    /\ lastOutcome = "Failed"
    /\ error = "SchemaMismatchError"
    /\ NominalSchema(RunningNode) = {"a"}
    /\ realized_schema(ProducedFrame) = {"b"}
    /\ pending = {}

\* ---------------------------------------------------------------- C31 --

\* The blocks that the call in progress committed for node n.
CallBlocksOfNode(n) == { r.id : r \in BlocksOfNode(callCommitted, n) }

\* C31: the value that produce(n) returns is the result of running the
\* requested node n, the last node of the execution order: the block that
\* the run of n produced last, never a block of an upstream node, and none
\* when the run of n produced no block, whatever the upstream nodes produced
\* in the same call.
C31_ProduceReturnsOutputOfRequestedNode ==
    (pc = "returned" /\ op = "produce") =>
        /\ deps[Len(deps)] = target
        /\ IF CallBlocksOfNode(target) = {}
           THEN output = 0
           ELSE /\ output \in CallBlocksOfNode(target)
                /\ \A i \in CallBlocksOfNode(target) : i <= output

\* A produce call returned none although an upstream node of the requested
\* node produced a block in the same call.
C31_Witness ==
    /\ pc = "returned"
    /\ op = "produce"
    /\ output = 0
    /\ \E m \in UpstreamClosure(upstream, target) \ {target} :
           CallBlocksOfNode(m) # {}

\* ---------------------------------------------------------------- C32 --

\* C32: run_node(n) executes the flattened root node of n alone, in a single
\* execution scope: no upstream dependency of n is run, at most one session
\* is opened by the call, every block the call writes is a block of n, and a
\* call that ended has run n.
C32_RunNodeRunsTheNodeAlone ==
    op = "run_node" =>
        /\ Len(runLog) <= 1
        /\ \A i \in 1..Len(runLog) : runLog[i].node = target
        /\ \A r \in callCommitted \cup pending : r.kind = "block" => r.node = target
        /\ pc \in {"returned", "raised"} => Len(runLog) = 1

\* A run_node call on a node with an upstream node returned a block; the
\* upstream node has output of an earlier call and was not run again.
C32_Witness ==
    /\ op = "run_node"
    /\ pc = "returned"
    /\ output # 0
    /\ \E m \in upstream[target] \ {target} :
           /\ BlocksOfNode(committed, m) # {}
           /\ BlocksOfNode(callCommitted, m) = {}

\* ---------------------------------------------------------------- C33 --

\* C33: a run_graph call runs the nodes of the flattened graph in execution
\* order, each node after its upstream nodes, at most once and in a session
\* of its own; a call that returns has run every node exactly once; once a
\* node failed no later node is run, the failed scope committed nothing, and
\* what the nodes before it committed stays committed.
C33_RunGraphRunsEveryNodeOnceInOrder ==
    op = "run_graph" =>
        /\ \A i \in 1..Len(runLog) :
               /\ runLog[i].node = deps[i]
               /\ \A u \in InputsOf(upstream, runLog[i].node) :
                      \E j \in 1..(i - 1) : runLog[j].node = u
        /\ \A i, j \in 1..Len(runLog) :
               (runLog[i].node = runLog[j].node \/ runLog[i].session = runLog[j].session) => i = j
        /\ pc = "returned" => { runLog[i].node : i \in 1..Len(runLog) } = Nodes
        /\ failure # NoError =>
               /\ Len(runLog) = failedAt
               /\ BlocksOf(committed, runLog[failedAt].session) = {}
               /\ \A i \in 1..(failedAt - 1) :
                      BlocksOf(committed, runLog[i].session) = BlocksOf(callCommitted, runLog[i].session)

\* The second node of a run_graph call failed after the first one committed
\* a block: the call raised, the block is in the store and the third node
\* was never run.
C33_Witness ==
    /\ op = "run_graph"
    /\ pc = "raised"
    /\ failedAt = 2
    /\ Len(runLog) = 2
    /\ Len(deps) = 3
    /\ BlocksOf(committed, runLog[1].session) # {}
    /\ BlocksOf(aborted, runLog[2].session) # {}

\* ---------------------------------------------------------------- C34 --

\* The names of the input slots of an interface.
InputNames(interface) == { interface.inputs[i].name : i \in 1..Len(interface.inputs) }

\* C34: get_interface returns the declared interface whenever declared_inputs
\* or declared_output is set: its input slots are the declared inputs with
\* their declared annotations and nothing else, its output is the declared
\* output; it returns the interface found from the callable otherwise. The
\* two are never merged: no slot of the callable that is not declared shows
\* in the declared interface, and a pipe that declares an output alone has
\* no input slot.
C34_DeclaredOrFoundNeverMerged ==
    (op = "get_interface" /\ pc = "returned") =>
        IF target.declared_inputs # Nothing \/ target.declared_output # None
        THEN LET declared == IF target.declared_inputs = Nothing THEN << >>
                             ELSE target.declared_inputs[1]
             IN  /\ InputNames(result) = { declared[i].name : i \in 1..Len(declared) }
                 /\ Len(result.inputs) = Len(declared)
                 /\ \A i \in 1..Len(result.inputs) :
                        \E j \in 1..Len(declared) :
                            /\ declared[j].name = result.inputs[i].name
                            /\ declared[j].annotation = result.inputs[i].annotation
                 /\ result.output = target.declared_output
                 /\ target.declared_inputs = Nothing => result.inputs = << >>
        ELSE /\ result = get_pipe_interface(target)
             /\ InputNames(result) = DataParameters(target.pipe_callable)

\* A pipe that declares its output alone and whose callable takes data
\* parameters and returns nothing else: the interface returned has the
\* declared output and no input slot.
C34_Witness ==
    /\ op = "get_interface"
    /\ pc = "returned"
    /\ target.declared_inputs = Nothing
    /\ target.declared_output # None
    /\ DataParameters(target.pipe_callable) # {}
    /\ target.pipe_callable.returns = None
    /\ result.inputs = << >>
    /\ result.output = target.declared_output

\* ---------------------------------------------------------------- C35 --

\* C35: the first storage of the environment is the default local memory
\* storage that the constructor added, whatever was added since; an execution
\* context asked for without a target storage has that first storage as its
\* target, and one asked for with a target storage has the storage passed.
C35_DefaultTargetIsFirstStorage ==
    /\ storages # << >>
    /\ storages[1] = LocalMemoryStorage
    /\ (op = "get_execution_context" /\ pc = "returned") =>
           /\ result.storages = storages
           /\ target = Nothing =>
                  /\ result.target_storage = Some(storages[1])
                  /\ result.target_storage = Some(result.local_memory_storage)
           /\ target # Nothing => result.target_storage = target

\* An execution context was asked for without a target storage after a
\* database storage was added: its target is the local memory storage.
C35_Witness ==
    /\ op = "get_execution_context"
    /\ pc = "returned"
    /\ target = Nothing
    /\ Len(storages) >= 2
    /\ storages[Len(storages)] # LocalMemoryStorage
    /\ result.target_storage = Some(LocalMemoryStorage)

\* ---------------------------------------------------------------- C36 --

\* The committed records of the generated otype of key k.
OtypeRecords(k) == { r \in committed : r.kind = "otype" /\ r.id = k }

\* C36: add_new_otype is idempotent. A call for a key that the library holds
\* returns at once and changes neither the metadata store nor the library
\* and opens no session. For a new key the record is committed before the
\* library is updated: when the call puts the key into the library, the
\* store holds the committed record of the key; no key ever has two
\* records, whatever the number of calls; and after a call that raised (the
\* store refused the write) the library does not hold the key and the store
\* has no record of it.
C36_AddNewOtypeIdempotent ==
    /\ [](/\ \A k \in Keys : Cardinality(OtypeRecords(k)) <= 1
          /\ (op = "add_new_otype" /\ failure # NoError) =>
                 /\ target \notin library
                 /\ OtypeRecords(target) = {})
    /\ [][(pc = "idle" /\ pc' # "idle" /\ op' = "add_new_otype" /\ target' \in library) =>
              /\ pc' = "returned"
              /\ committed' = committed
              /\ library' = library
              /\ pending' = {}
              /\ opened' = opened]_vars
    /\ [][(op = "add_new_otype" /\ op' = op /\ library' # library) =>
              /\ library' = library \cup {target}
              /\ Cardinality(OtypeRecords(target)) = 1
              /\ committed' = committed
              /\ pending = {}]_vars

\* A second add_new_otype call for the key that the first call added
\* returned: the store holds the one record of the first call.
C36_Witness ==
    /\ op = "add_new_otype"
    /\ pc = "returned"
    /\ Len(calls) >= 1
    /\ PreviousCall.op = "add_new_otype"
    /\ PreviousCall.target = target
    /\ PreviousCall.ended = "returned"
    /\ target \in library
    /\ callCommitted = {}
    /\ Cardinality(OtypeRecords(target)) = 1

\* ---------------------------------------------------------------- C37 --

\* The formats of lazy records: a replica of such a format holds a generator
\* of chunks.
GeneratorFormats == { "RecordsListGenerator", "DataFrameGenerator" }

\* The rows that records of format f hold, in order: those of a records list
\* as they are, those of a dataframe read across its columns.
RowsOf(f, d) ==
    IF f \in { "DataFrame", "DataFrameGenerator" }
    THEN [ i \in 1..NumRows(d) |-> [ c \in Columns |-> d[c][i] ] ]
    ELSE d

\* Two rows hold the same values, the null of a dataframe being the null of
\* a records list.
SameRow(r1, r2) ==
    \A c \in Columns : r1[c] = r2[c] \/ (r1[c] \in {None, NaT} /\ r2[c] \in {None, NaT})

RECURSIVE RowsYielded(_, _, _)
\* The number of rows in the first k chunks of the generator gen of format f.
RowsYielded(f, gen, k) ==
    IF k = 0 THEN 0 ELSE RowsYielded(f, gen, k - 1) + Len(RowsOf(f, gen[k]))

\* The records out of format fout hold the chunks of the generator gen of
\* format fin one after the other: every row of every chunk at its place,
\* and no other row.
Materializes(fin, gen, fout, out) ==
    /\ Len(RowsOf(fout, out)) = RowsYielded(fin, gen, Len(gen))
    /\ \A k \in 1..Len(gen) : \A j \in 1..Len(RowsOf(fin, gen[k])) :
           SameRow(RowsOf(fout, out)[RowsYielded(fin, gen, k - 1) + j], RowsOf(fin, gen[k])[j])

\* C37: converting a generator replica in memory materializes it fully. The
\* conversion of a generator replica to a records list or to a dataframe
\* stores a replica that holds all the chunks the generator yields, in yield
\* order, no row lost or duplicated; and no replica that the converter wrote
\* is of a generator format.
C37_GeneratorConversionMaterializes ==
    /\ \A r \in replicas : r.from # 0 => r.sf.format \notin GeneratorFormats
    /\ \A r \in replicas : \A q \in replicas :
           (r.from = q.id /\ q.sf.format \in GeneratorFormats) =>
               Materializes(q.sf.format, q.data, r.sf.format, r.data)
    /\ (/\ op = "convert"
        /\ ReplicaById(replicas, cvSource).sf.format \in GeneratorFormats
        /\ cvTarget.format \notin GeneratorFormats) =>
           /\ error = NoError
           /\ \E r \in replicas : r.id = result /\ r.from = cvSource /\ r.sf = cvTarget

\* ---------------------------------------------------------------- C38 --

\* The step is a call of _convert for two formats that the lookup has no
\* conversion function for.
ConvertsWithoutFunction ==
    /\ op' = "convert"
    /\ \E r \in replicas :
           /\ r.id = cvSource'
           /\ << r.sf.format, cvTarget'.format >> \notin LookupKeys

\* C38: _convert for an (input format, output format) pair without a
\* conversion function raises NotImplementedError; it stores no replica, and
\* the replicas there were, the input among them, are as they were.
C38_NoFunctionRaisesNotImplemented ==
    [][ConvertsWithoutFunction =>
            /\ error' = "NotImplementedError"
            /\ pc' = "raised"
            /\ result' = 0
            /\ replicas' = replicas]_vars

\* A records list of two rows was to be converted to a records list
\* generator: NotImplementedError was raised and the records list is the
\* only replica.
C38_Witness ==
    /\ op = "convert"
    /\ pc = "raised"
    /\ error = "NotImplementedError"
    /\ cvTarget.format = "RecordsListGenerator"
    /\ \E r \in replicas :
           /\ replicas = {r}
           /\ r.id = cvSource
           /\ r.sf.format = "RecordsList"
           /\ Len(r.data) = 2

=============================================================================
